---- MODULE Spec2Model ----
(***************************************************************************)
(* A model of the compiler orchestrator (compiler/src/compiler.rs), of the *)
(* C interface that user code calls back into (compiler/src/c_interface.rs)*)
(* and of the constraint solver (compiler/src/inference.rs).               *)
(*                                                                         *)
(* The code store is modelled map by map.  A load call is a frame on a     *)
(* stack: the top-level function of a unit can call load_module again, and *)
(* the nested call runs to completion before the outer one resumes.        *)
(***************************************************************************)
EXTENDS Integers, Sequences, FiniteSets, TLC

VARIABLES
  gen,            \* UIDGenerator: the last id handed out
  code,           \* code_store.code: the source ids that have a text
  exprs,          \* code_store.exprs: unit id -> program
  nodes,          \* code_store.nodes: the unit ids that have a node graph
  types,          \* code_store.types: unit id -> set of symbol definitions
  type_mappings,  \* code_store.type_mappings: unit id -> polymorphic references
  llvm_units,     \* code_store.llvm_units: the unit ids that have a native module
  vals,           \* code_store.vals: unit id -> value of the top-level function
  poly_functions, \* code_store.poly_functions: symbol id -> PolyFunction
  named_units,    \* code_store: name -> unit id
  linked,         \* the units link_unit was called for
  stack,          \* the load calls in progress, innermost last
  loads,          \* number of load calls made so far
  crashed,        \* a panic (an unwrap of None) ended the process
  last,           \* outcome of the call that returned last
  allocs,         \* every (symbol, signature, unit) an instance unit id was allocated for,
                  \* with whether the pair had an instance then
  registered,     \* every (symbol, signature, unit, instance symbol) put into an instances map
  constraints,    \* Constraints.constraints: the list the generator emitted
  resolved,       \* Inference.resolved: type symbol -> TypeConstraint
  errors,         \* Inference.errors
  unused,         \* unused_constraints of Inference::infer
  total_passes,   \* total_passes of Inference::infer
  ipc,            \* where Inference::infer is
  node_type,      \* CodegenInfo.node_type: node id -> Type
  functions,      \* ModuleInfo.functions: the function definitions visible to the unit
  call,           \* a call of a function of the C interface: its arguments
  result,         \* what the call returned
  modules,        \* InterpreterInner.modules (legacy/jit.rs): the compiled modules
  ran,            \* what the last run_expression of the interpreter returned
  watcher,        \* the FileWatcher behind a WatcherHandle (c_interface.rs)
  rx,             \* the events in the channel between watcher and compiler
  sent,           \* the events the watcher thread has sent, in order
  path_out,       \* what the last poll_watcher_event wrote to path_out
  delivered       \* the paths poll_watcher_event has returned, in order

store == <<code, exprs, nodes, types, type_mappings, llvm_units, vals, poly_functions>>
cvars == <<gen, code, exprs, nodes, types, type_mappings, llvm_units, vals,
           poly_functions, named_units, linked, stack, loads, crashed, last,
           allocs, registered>>
ivars == <<constraints, resolved, errors, unused, total_passes, ipc, node_type,
           functions>>
qvars == <<call, result>>
jvars == <<modules, ran>>
wvars == <<watcher, rx, sent, path_out, delivered>>
vars == <<cvars, ivars, qvars, jvars, wvars>>

\* ---------------------------------------------------------------- bounds
MaxLoads == 2
MaxDepth == 2

\* ---------------------------------------------------------------- inputs
PolyNames == {"f", "g"}
Sigs == {1, 2}

\* The polymorphic functions the body of a polymorphic function calls, at the
\* signature it is instantiated with: f calls g, g calls nothing polymorphic.
BodyCalls(name) ==
  IF name = "f" THEN {"g"} ELSE IF name = "h" THEN {"h"} ELSE {}

\* What a program returns from its top-level function: a type that
\* run_top_level hands back as a Val, or one it rejects.
RetTypes == {"I64", "Def"}

\* A program: the polymorphic functions it defines, the (name, signature)
\* pairs it calls (at most one call), and the return type of its top-level
\* function.  Only the program without polymorphism returns a rejected type.
Programs ==
  [defs : {{}, PolyNames},
   refs : {{}} \cup {{r} : r \in PolyNames \X Sigs},
   ret  : {"I64"}]
  \cup {[defs |-> {}, refs |-> {}, ret |-> "Def"]}

\* ---------------------------------------------------------------- helpers
Put(f, k, v) == (k :> v) @@ f
Drop(f, ks) == [x \in (DOMAIN f) \ ks |-> f[x]]
EmptyMap == <<>>

NoFrame == [kind |-> "none", unit |-> 0, src |-> 0, ok |-> TRUE,
            pre |-> <<>>, own |-> <<>>, nested |-> 0,
            name |-> "", prev |-> <<>>, at |-> 0]

Top == stack[Len(stack)]
SetTop(f) == [stack EXCEPT ![Len(stack)] = f]
Pop == SubSeq(stack, 1, Len(stack) - 1)

\* A nested call that returns hands control back to the caller's running
\* top-level function.
PopReturn ==
  IF Len(stack) > 1
    THEN [Pop EXCEPT ![Len(stack) - 1].nested = @ + 1]
    ELSE Pop

Outcome(f, isok) ==
  [kind |-> "load", unit |-> f.unit, src |-> f.src, ok |-> isok,
   pre |-> f.pre, own |-> f.own, nested |-> f.nested,
   name |-> f.name, prev |-> f.prev, at |-> loads]

Snapshot ==
  [poly_functions |-> poly_functions, types |-> types,
   type_mappings |-> type_mappings, llvm_units |-> llvm_units]

NewFrame(unit, src, prog) ==
  [unit |-> unit, src |-> src, prog |-> prog, pc |-> "structure",
   queue |-> <<>>, psid |-> 0, rem |-> {}, new_types |-> {},
   to_codegen |-> {}, to_compile |-> {}, pre |-> Snapshot,
   own |-> <<>>, nested |-> 0, name |-> "", prev |-> <<>>]

\* is_polymorphic
is_polymorphic(def) == def.poly

\* The symbol named n of unit u.
SymbolOf(tys, u, n) == CHOOSE s \in tys[u] : s.name = n

PolyUnits(tys) ==
  {u \in DOMAIN tys : \E s \in tys[u] : is_polymorphic(s)}

InitStore ==
  /\ gen = 0
  /\ code = {}
  /\ exprs = EmptyMap
  /\ nodes = {}
  /\ types = EmptyMap
  /\ type_mappings = EmptyMap
  /\ llvm_units = {}
  /\ vals = EmptyMap
  /\ poly_functions = EmptyMap
  /\ named_units = EmptyMap
  /\ linked = {}
  /\ stack = <<>>
  /\ loads = 0
  /\ crashed = FALSE
  /\ last = NoFrame
  /\ allocs = {}
  /\ registered = {}

\* ------------------------------------------------------- load: entry points

\* Mutant: a nested call takes the unit id of the load in progress.
load_expr_unit_id_reused(g, st) ==
  IF st # <<>> THEN st[Len(st)].unit ELSE g + 1

\* The unit id a load_expr_as_module call allocates.
load_expr_unit_id(g, st) == g + 1

Fail(f) ==
  /\ stack' = PopReturn
  /\ last' = Outcome(f, FALSE)

\* Compiler::load_module: the source text is stored, then the unit id is
\* allocated, then the text is parsed.
load_module(prog, parsed) ==
  /\ ~crashed /\ stack = <<>> /\ loads < MaxLoads
  /\ loads' = loads + 1
  /\ gen' = gen + 2
  /\ code' = code \cup {gen + 1}
  /\ IF parsed
       THEN /\ exprs' = Put(exprs, gen + 2, prog)
            /\ stack' = Append(stack, NewFrame(gen + 2, gen + 1, prog))
            /\ UNCHANGED last
       ELSE /\ last' = [Outcome(NewFrame(gen + 2, gen + 1, prog), FALSE)
                          EXCEPT !.at = loads + 1]
            /\ UNCHANGED <<exprs, stack>>
  /\ UNCHANGED <<nodes, types, type_mappings, llvm_units, vals, poly_functions,
                 named_units, linked, crashed, allocs, registered>>
  /\ UNCHANGED <<ivars, qvars, jvars, wvars>>

\* ---- named units, dependents and removal (code_store) ----

\* The bound on load calls once names are in use.
MaxNamedLoads == 3

\* The bound on the calls a running unit makes before it unloads a unit.
MaxCalls == 1

\* The units whose type mapping references a symbol defined in a unit of S.
Dependents(tm, S) == {d \in DOMAIN tm : \E r \in tm[d] : r.unit \in S}

\* find_all_dependents: the transitive closure of Dependents from unit U.
RECURSIVE DependentsFrom(_, _)
DependentsFrom(tm, S) ==
  IF Dependents(tm, S) \subseteq S THEN S
  ELSE DependentsFrom(tm, S \cup Dependents(tm, S))

\* find_all_dependents without the closure: the units that reference U itself.
find_all_dependents_direct(tm, U) == Dependents(tm, {U}) \ {U}

find_all_dependents(tm, U) == DependentsFrom(tm, {U}) \ {U}

\* CodeStore::remove_unit takes out U and every dependent of U.
Removed(tm, U) == {U} \cup find_all_dependents(tm, U)

\* The names left after the units R are removed.
DropNames(nu, R) == [n \in {m \in DOMAIN nu : nu[m] \notin R} |-> nu[n]]

\* CodeStore::remove_unit, for every map but exprs and named_units: the
\* entries of the units R are taken out, and the polymorphic functions that
\* the units R define are taken out of the registry.
RemoveFrom(R) ==
  /\ nodes' = nodes \ R
  /\ types' = Drop(types, R)
  /\ type_mappings' = Drop(type_mappings, R)
  /\ llvm_units' = llvm_units \ R
  /\ vals' = Drop(vals, R)
  /\ linked' = linked \ R
  /\ poly_functions' =
       Drop(poly_functions,
            {x \in DOMAIN poly_functions : poly_functions[x].source_unit \in R})

\* CodeStore::named_unit
named_unit(nu, name) == IF name \in DOMAIN nu THEN <<nu[name]>> ELSE <<>>

\* c_interface get_module
get_module(name) == named_unit(named_units, name)

\* Compiler::load_expr_as_module: a name that is in use loses its unit, and
\* the unit's dependents go with it; the expression is stored under a fresh
\* unit id, the name (if any) is bound to it, and the pipeline starts.
load_expr_as_module(name, prog) ==
  LET unit_id == load_expr_unit_id(gen, stack)
      prev == IF name = "" THEN <<>> ELSE named_unit(named_units, name)
      R == IF prev = <<>> THEN {} ELSE Removed(type_mappings, prev[1])
  IN
  /\ loads' = loads + 1
  /\ gen' = gen + 1
  /\ RemoveFrom(R)
  /\ exprs' = Put(Drop(exprs, R), unit_id, prog)
  /\ named_units' = IF name = "" THEN named_units
                    ELSE Put(DropNames(named_units, R), name, unit_id)
  /\ stack' = Append(stack, [NewFrame(unit_id, 0, prog) EXCEPT
                               !.name = name, !.prev = prev])
  /\ UNCHANGED <<code, crashed, last, allocs, registered>>
  /\ UNCHANGED <<ivars, qvars, jvars, wvars>>

\* c_interface load_module: user code, running as the top-level function of
\* the innermost unit, loads an expression as a module, under a name or
\* ("") under none.
c_load_module(maybe_name, prog) ==
  /\ ~crashed /\ stack # <<>> /\ Top.pc = "running"
  /\ Len(stack) < MaxDepth
  /\ loads < (IF maybe_name = "" THEN MaxLoads ELSE MaxNamedLoads)
  /\ load_expr_as_module(maybe_name, prog)

\* unload_module without the removal.
unload_module_kept(unit_id) ==
  /\ ~crashed /\ stack # <<>> /\ Top.pc = "running"
  /\ unit_id \in DOMAIN exprs /\ Top.nested < MaxCalls
  /\ stack' = SetTop([Top EXCEPT !.nested = @ + 1])
  /\ last' = [NoFrame EXCEPT !.kind = "unload", !.unit = unit_id,
                             !.pre = Snapshot, !.at = loads]
  /\ UNCHANGED <<gen, code, exprs, nodes, types, type_mappings, llvm_units,
                 vals, poly_functions, named_units, linked, loads, crashed,
                 allocs, registered>>
  /\ UNCHANGED <<ivars, qvars, jvars, wvars>>

\* c_interface unload_module: user code removes a unit.
unload_module(unit_id) ==
  LET R == Removed(type_mappings, unit_id) IN
  /\ ~crashed /\ stack # <<>> /\ Top.pc = "running"
  /\ unit_id \in DOMAIN exprs /\ Top.nested < MaxCalls
  /\ RemoveFrom(R)
  /\ exprs' = Drop(exprs, R)
  /\ named_units' = DropNames(named_units, R)
  /\ stack' = SetTop([Top EXCEPT !.nested = @ + 1])
  /\ last' = [NoFrame EXCEPT !.kind = "unload", !.unit = unit_id,
                             !.pre = Snapshot, !.at = loads]
  /\ UNCHANGED <<gen, code, loads, crashed, allocs, registered>>
  /\ UNCHANGED <<ivars, qvars, jvars, wvars>>

\* ------------------------------------------------------- load: the pipeline

\* Compiler::structure
structure(built) ==
  /\ ~crashed /\ stack # <<>> /\ Top.pc = "structure"
  /\ IF built
       THEN /\ nodes' = nodes \cup {Top.unit}
            /\ stack' = SetTop([Top EXCEPT !.pc = "typecheck"])
            /\ UNCHANGED last
       ELSE /\ Fail(Top)
            /\ UNCHANGED nodes
  /\ UNCHANGED <<gen, code, exprs, types, type_mappings, llvm_units, vals,
                 poly_functions, named_units, linked, loads, crashed, allocs,
                 registered>>
  /\ UNCHANGED <<ivars, qvars, jvars, wvars>>

\* The order in which a unit's symbols get their ids.
NameSeq == <<"f", "g", "h">>

\* The symbol definitions a root unit gets from inference: one polymorphic
\* function per name it defines, with fresh ids.
RootSymbols(unit, prog, g) ==
  {[id |-> g + i, name |-> NameSeq[i], unit_id |-> unit, poly |-> TRUE] :
     i \in {j \in 1..Len(NameSeq) : NameSeq[j] \in prog.defs}}

\* The units a call by name can resolve to: every unit of the store that
\* defines polymorphic functions, and the unit itself when it defines them.
Candidates(unit, prog) ==
  PolyUnits(types) \cup (IF prog.defs # {} THEN {unit} ELSE {})

\* The polymorphic references of a root unit whose calls resolve to unit du.
RootMapping(tys, prog, du) ==
  {[unit |-> du, sym |-> SymbolOf(tys, du, r[1]).id, sig |-> r[2]] :
     r \in prog.refs}

\* The polymorphic references of the instance of (symbol named name of unit
\* pu) at signature sig: the body's calls, at the same signature.
InstanceMapping(tys, pu, name, sig) ==
  {[unit |-> pu, sym |-> SymbolOf(tys, pu, n).id, sig |-> sig] :
     n \in BodyCalls(name)}

\* Compiler::typecheck: inference, registration of the unit's polymorphic
\* symbols, the unit's types and mapping, and the start of
\* typecheck_new_polymorphic_instances (the root is popped from the queue).
typecheck(inferred, du) ==
  LET f == Top
      syms == RootSymbols(f.unit, f.prog, gen)
      tys == Put(types, f.unit, syms)
      mapping == RootMapping(tys, f.prog, du) IN
  /\ ~crashed /\ stack # <<>> /\ f.pc = "typecheck"
  /\ IF inferred /\ (f.prog.refs = {} \/ du \in Candidates(f.unit, f.prog))
       THEN /\ gen' = gen + Len(NameSeq)
            /\ poly_functions' =
                 [s \in {d.id : d \in {x \in syms : is_polymorphic(x)}} |->
                    [source_unit |-> f.unit, instances |-> EmptyMap]]
                 @@ poly_functions
            /\ types' = tys
            /\ type_mappings' = Put(type_mappings, f.unit, mapping)
            /\ stack' = SetTop([f EXCEPT !.pc = "tc_inst", !.psid = f.unit,
                                         !.rem = mapping, !.queue = <<>>,
                                         !.new_types = {}])
            /\ UNCHANGED last
       ELSE /\ Fail(f)
            /\ UNCHANGED <<gen, poly_functions, types, type_mappings>>
  /\ UNCHANGED <<code, exprs, nodes, llvm_units, vals, named_units, linked,
                 loads, crashed, allocs, registered>>
  /\ UNCHANGED <<ivars, qvars, jvars, wvars>>

\* The instance unit a polymorphic reference names:
\* poly_functions.get(symbol_id).unwrap().instances.get(type_tag).unwrap().0
InstanceUnit(pf, r) == pf[r.sym].instances[r.sig][1]

\* Whether the two unwraps of InstanceUnit succeed.
HasInstance(pf, r) ==
  /\ r.sym \in DOMAIN pf
  /\ r.sig \in DOMAIN pf[r.sym].instances

\* Mutant: the instances map is not consulted.
needs_instance_unchecked(pf, r) == r.sym \in DOMAIN pf

\* Whether the loop of typecheck_new_polymorphic_instances makes a new
\* instance for reference r.
needs_instance(pf, r) ==
  /\ r.sym \in DOMAIN pf
  /\ r.sig \notin DOMAIN pf[r.sym].instances

\* One iteration of the inner loop of typecheck_new_polymorphic_instances:
\* reference r of the unit being searched.
tc_reference(r, checked) ==
  LET f == Top
      instance_unit_id == gen + 1
      instance_symbol_id == gen + 2
      poly_def == CHOOSE d \in types[r.unit] : d.id = r.sym
      inst == [unit |-> instance_unit_id,
               types |-> {[id |-> instance_symbol_id, name |-> poly_def.name,
                           unit_id |-> instance_unit_id, poly |-> FALSE]},
               mapping |-> InstanceMapping(types, r.unit, poly_def.name, r.sig)]
  IN
  /\ ~crashed /\ stack # <<>> /\ f.pc = "tc_inst" /\ r \in f.rem
  /\ IF needs_instance(poly_functions, r)
       THEN /\ allocs' = allocs \cup
                 {[sym |-> r.sym, sig |-> r.sig, unit |-> instance_unit_id,
                   had |-> HasInstance(poly_functions, r)]}
            /\ IF checked
                 THEN /\ gen' = gen + 2
                      /\ poly_functions' =
                           [poly_functions EXCEPT ![r.sym].instances =
                              Put(@, r.sig, <<instance_unit_id, instance_symbol_id>>)]
                      /\ registered' = registered \cup
                           {[sym |-> r.sym, sig |-> r.sig,
                             unit |-> instance_unit_id,
                             isym |-> instance_symbol_id]}
                      /\ stack' = SetTop([f EXCEPT
                           !.rem = @ \ {r},
                           !.new_types = @ \cup {inst},
                           !.queue = Append(@, instance_unit_id)])
                      /\ UNCHANGED last
                 ELSE /\ gen' = gen + 1
                      /\ Fail(f)
                      /\ UNCHANGED <<poly_functions, registered>>
       ELSE /\ stack' = SetTop([f EXCEPT !.rem = @ \ {r}])
            /\ UNCHANGED <<gen, poly_functions, registered, allocs, last>>
  /\ UNCHANGED <<code, exprs, nodes, types, type_mappings, llvm_units, vals,
                 named_units, linked, loads, crashed>>
  /\ UNCHANGED <<ivars, qvars, jvars, wvars>>

\* The end of one iteration of the outer loop: the new instances' types and
\* mappings go into the store; then the next unit is popped, or the loop ends
\* and Compiler::codegen starts its search at the root.
tc_next ==
  LET f == Top
      tys == [u \in {i.unit : i \in f.new_types} |->
                (CHOOSE i \in f.new_types : i.unit = u).types] @@ types
      maps == [u \in {i.unit : i \in f.new_types} |->
                (CHOOSE i \in f.new_types : i.unit = u).mapping] @@ type_mappings
  IN
  /\ ~crashed /\ stack # <<>> /\ f.pc = "tc_inst" /\ f.rem = {}
  /\ types' = tys
  /\ type_mappings' = maps
  /\ IF f.queue = <<>>
       THEN stack' = SetTop([f EXCEPT !.pc = "codegen", !.new_types = {},
                                      !.psid = 0,
                                      !.to_codegen = {f.unit},
                                      !.queue = <<f.unit>>])
       ELSE stack' = SetTop([f EXCEPT !.new_types = {},
                                      !.psid = Head(f.queue),
                                      !.rem = maps[Head(f.queue)],
                                      !.queue = Tail(f.queue)])
  /\ UNCHANGED <<gen, code, exprs, nodes, llvm_units, vals, poly_functions,
                 named_units, linked, loads, crashed, last, allocs, registered>>
  /\ UNCHANGED <<ivars, qvars, jvars, wvars>>

\* ------------------------------------------------------------- codegen

RECURSIVE SetToSeq(_)
SetToSeq(S) ==
  IF S = {} THEN <<>>
  ELSE LET x == CHOOSE y \in S : \A z \in S : y <= z
       IN <<x>> \o SetToSeq(S \ {x})

\* Mutant: llvm_units is not consulted.
units_without_module_all(pf, lus, mapping) ==
  {InstanceUnit(pf, r) : r \in mapping}

\* The instance units the search of Compiler::codegen adds for the unit it
\* pops: those named by the unit's references that have no native module.
units_without_module(pf, lus, mapping) ==
  {InstanceUnit(pf, r) : r \in {x \in mapping : InstanceUnit(pf, x) \notin lus}}

\* One iteration of the search loop of Compiler::codegen: the unit at the
\* head of the queue is popped and its references are followed.  A failed
\* unwrap is a panic.
codegen_search ==
  LET f == Top
      psid == Head(f.queue)
      mapping == type_mappings[psid]
      found == units_without_module(poly_functions, llvm_units, mapping)
      queue == Tail(f.queue) \o SetToSeq(found)
  IN
  /\ ~crashed /\ stack # <<>> /\ f.pc = "codegen" /\ f.queue # <<>>
  /\ IF psid \in DOMAIN type_mappings
        /\ \A r \in mapping : HasInstance(poly_functions, r)
       THEN /\ stack' = SetTop([f EXCEPT
                 !.queue = queue,
                 !.to_codegen = @ \cup found,
                 !.to_compile = IF queue = <<>> THEN f.to_codegen \cup found ELSE {},
                 !.pc = IF queue = <<>> THEN "compile" ELSE "codegen"])
            /\ UNCHANGED crashed
       ELSE /\ crashed' = TRUE
            /\ UNCHANGED stack
  /\ UNCHANGED <<gen, code, exprs, nodes, types, type_mappings, llvm_units,
                 vals, poly_functions, named_units, linked, loads, last,
                 allocs, registered>>
  /\ UNCHANGED <<ivars, qvars, jvars, wvars>>

\* The first loop over units_to_codegen: compile_unit and the insertion into
\* llvm_units, for each unit, in no particular order (a HashSet).  The units in
\* done are compiled; the loop ends there with the error of the next unit when
\* done is not the whole set.
compile_units(done) ==
  LET f == Top IN
  /\ ~crashed /\ stack # <<>> /\ f.pc = "compile" /\ done \subseteq f.to_compile
  /\ llvm_units' = llvm_units \cup done
  /\ IF done = f.to_compile
       THEN /\ stack' = SetTop([f EXCEPT !.to_compile = {}, !.pc = "link"])
            /\ UNCHANGED last
       ELSE Fail(f)
  /\ UNCHANGED <<gen, code, exprs, nodes, types, type_mappings, vals,
                 poly_functions, named_units, linked, loads, crashed, allocs,
                 registered>>
  /\ UNCHANGED <<ivars, qvars, jvars, wvars>>

\* The second loop over units_to_codegen: link_unit for each.
link_units ==
  LET f == Top IN
  /\ ~crashed /\ stack # <<>> /\ f.pc = "link"
  /\ linked' = linked \cup f.to_codegen
  /\ stack' = SetTop([f EXCEPT !.pc = "initialise"])
  /\ UNCHANGED <<gen, code, exprs, nodes, types, type_mappings, llvm_units,
                 vals, poly_functions, named_units, loads, crashed, last,
                 allocs, registered>>
  /\ UNCHANGED <<ivars, qvars, jvars, wvars>>

\* ------------------------------------------------------------- initialise

\* The return types run_top_level can hand back as a Val.
Returnable(ret) == ret = "I64"

\* The entries the store holds under unit id u.
Entries(u) ==
  [expr |-> IF u \in DOMAIN exprs THEN <<exprs[u]>> ELSE <<>>,
   nodes |-> u \in nodes,
   types |-> IF u \in DOMAIN types THEN <<types[u]>> ELSE <<>>,
   mapping |-> IF u \in DOMAIN type_mappings THEN <<type_mappings[u]>> ELSE <<>>,
   llvm |-> u \in llvm_units,
   val |-> IF u \in DOMAIN vals THEN <<vals[u]>> ELSE <<>>]

\* Compiler::run_top_level, up to the call of the unit's top-level function:
\* a return type that is no Val is an error, and the function is not run.
run_top_level ==
  LET f == Top IN
  /\ ~crashed /\ stack # <<>> /\ f.pc = "initialise"
  /\ IF Returnable(f.prog.ret)
       THEN /\ stack' = SetTop([f EXCEPT !.pc = "running", !.own = Entries(f.unit)])
            /\ UNCHANGED last
       ELSE Fail(f)
  /\ UNCHANGED <<gen, code, exprs, nodes, types, type_mappings, llvm_units,
                 vals, poly_functions, named_units, linked, loads, crashed,
                 allocs, registered>>
  /\ UNCHANGED <<ivars, qvars, jvars, wvars>>

\* The unit whose value Compiler::initialise stores.
initialise_unit(f) == f.unit

\* The top-level function returns: Compiler::initialise stores its value and
\* the load call returns Ok.
initialise ==
  LET f == Top IN
  /\ ~crashed /\ stack # <<>> /\ f.pc = "running"
  /\ vals' = Put(vals, initialise_unit(f), [ty |-> f.prog.ret, by |-> f.unit])
  /\ stack' = PopReturn
  /\ last' = Outcome(f, TRUE)
  /\ UNCHANGED <<gen, code, exprs, nodes, types, type_mappings, llvm_units,
                 poly_functions, named_units, linked, loads, crashed, allocs,
                 registered>>
  /\ UNCHANGED <<ivars, qvars, jvars, wvars>>

\* ------------------------------------------------------------- specification

\* The choices the quantifiers of the next-state relation range over; the
\* actions' guards decide which of them apply.
DefUnits == IF stack = <<>> THEN {} ELSE Candidates(Top.unit, Top.prog) \cup {0}
TopRem == IF stack = <<>> THEN {} ELSE Top.rem
TopToCompile == IF stack = <<>> THEN {} ELSE Top.to_compile

NextLoad ==
  \/ \E prog \in Programs, parsed \in BOOLEAN : load_module(prog, parsed)
  \/ \E prog \in Programs : c_load_module("", prog)
  \/ \E built \in BOOLEAN : structure(built)
  \/ \E inferred \in BOOLEAN : \E du \in DefUnits : typecheck(inferred, du)
  \/ \E r \in TopRem, checked \in BOOLEAN : tc_reference(r, checked)
  \/ tc_next
  \/ codegen_search
  \/ \E done \in SUBSET TopToCompile : compile_units(done)
  \/ link_units
  \/ run_top_level
  \/ initialise

\* The solver at rest, for the specifications that are not about it.
InferIdle ==
  /\ constraints = <<>>
  /\ resolved = EmptyMap
  /\ errors = <<>>
  /\ unused = <<>>
  /\ total_passes = 0
  /\ ipc = "idle"
  /\ node_type = EmptyMap
  /\ functions = <<>>

\* No call of a C interface function has been made.
NoCall == [kind |-> "none", a |-> <<>>, b |-> <<>>]
CallIdle == call = NoCall /\ result = NoCall

\* interpreter(): no module has been compiled.
NoRun == [kind |-> "none", ok |-> TRUE, val |-> <<"Void", 0>>, prog |-> <<>>,
          before |-> 0, n |-> 0]
JitIdle == modules = <<>> /\ ran = NoRun

\* No watcher has been created.
WatcherIdle ==
  /\ watcher = "none" /\ rx = <<>> /\ sent = <<>>
  /\ path_out = <<>> /\ delivered = <<>>

Init == InitStore /\ InferIdle /\ CallIdle /\ JitIdle /\ WatcherIdle

Next == NextLoad

\* Loads of source texts by the host, and of expressions by running units.
Spec == Init /\ [][Next]_vars

\* The names user code gives to modules.
Names == {"m"}

\* The modules user code loads under a name: a library that uses its own
\* polymorphic function, and a module that defines and uses none.
NamedPrograms ==
  {[defs |-> PolyNames, refs |-> {<<"f", 1>>}, ret |-> "I64"],
   [defs |-> {}, refs |-> {}, ret |-> "I64"]}

StoredUnits == DOMAIN exprs

\* Loads under names and unloads, with the loads of Next.
NextNamed ==
  \/ NextLoad
  \/ \E name \in Names, prog \in NamedPrograms : c_load_module(name, prog)
  \/ \E unit_id \in StoredUnits : unload_module(unit_id)

SpecNamed == Init /\ [][NextNamed]_vars

\* ------------------------------------------------------------- properties

\* The last call into the compiler that returned was a load, and no load
\* has started since.
Returned == last.kind = "load" /\ last.at = loads
Failed == Returned /\ ~last.ok
Succeeded == Returned /\ last.ok

\* C1: after a load call that returned an error, the store has no entry under
\* the unit id the call allocated, in any map, and no source text under the
\* source id it allocated.
C1_FailedLoadLeavesNoEntry ==
  Failed =>
    /\ last.unit \notin DOMAIN exprs
    /\ last.unit \notin nodes
    /\ last.unit \notin DOMAIN types
    /\ last.unit \notin DOMAIN type_mappings
    /\ last.unit \notin llvm_units
    /\ last.unit \notin DOMAIN vals
    /\ last.src \notin code

\* C2: after a load call that returned an error, what does not belong to the
\* new unit is as it was before the call: every symbol the polymorphic
\* registry had keeps its instances map, the registry's new symbols are the
\* new unit's, and the types, type_mappings and llvm_units entries of every
\* other unit (the instance units among them) are unchanged.
C2_FailedLoadLeavesOthersUnchanged ==
  Failed =>
    /\ \A s \in DOMAIN last.pre.poly_functions :
         s \in DOMAIN poly_functions
         /\ poly_functions[s] = last.pre.poly_functions[s]
    /\ \A s \in (DOMAIN poly_functions) \ (DOMAIN last.pre.poly_functions) :
         poly_functions[s].source_unit = last.unit
    /\ Drop(types, {last.unit}) = last.pre.types
    /\ Drop(type_mappings, {last.unit}) = last.pre.type_mappings
    /\ llvm_units \ {last.unit} = last.pre.llvm_units

\* C3 as stated: for each (symbol, signature) at most one instance unit id is
\* ever allocated, and an instances entry is never overwritten.
C3_OneUnitIdPerPair ==
  /\ \A a, b \in allocs : (a.sym = b.sym /\ a.sig = b.sig) => a.unit = b.unit
  /\ \A r \in registered :
       HasInstance(poly_functions, r)
       /\ poly_functions[r.sym].instances[r.sig] = <<r.unit, r.isym>>

\* C3 as amended: for each (symbol, signature) at most one instance unit is
\* ever registered, its instances entry is never overwritten, and no unit id
\* is allocated for a pair that has an instances entry.
C3_OneInstancePerPair ==
  /\ \A a, b \in registered : (a.sym = b.sym /\ a.sig = b.sig) => a = b
  /\ \A r \in registered :
       HasInstance(poly_functions, r)
       /\ poly_functions[r.sym].instances[r.sig] = <<r.unit, r.isym>>
  /\ \A a \in allocs : ~a.had

\* Two units whose loads succeeded use the same registered pair.
C3_Witness ==
  /\ stack = <<>>
  /\ \E u, v \in DOMAIN vals :
       /\ u # v
       /\ \E r \in type_mappings[u] \cap type_mappings[v] :
            \E x \in registered : x.sym = r.sym /\ x.sig = r.sig

\* C4: between load calls, every polymorphic reference of every stored
\* mapping has its symbol in poly_functions and its signature in the
\* symbol's instances map, and the instance unit has types and a mapping.
C4_ReferencesMaterialized ==
  (stack = <<>>) =>
    \A u \in DOMAIN type_mappings : \A r \in type_mappings[u] :
      /\ HasInstance(poly_functions, r)
      /\ InstanceUnit(poly_functions, r) \in DOMAIN types
      /\ InstanceUnit(poly_functions, r) \in DOMAIN type_mappings

\* The instance units reachable from the units in S through polymorphic
\* references.
RECURSIVE Reach(_, _)
Reach(S, seen) ==
  LET next == {InstanceUnit(poly_functions, r) :
                 r \in {x \in UNION {type_mappings[u] :
                                       u \in S \cap DOMAIN type_mappings} :
                          HasInstance(poly_functions, x)}}
  IN IF next \subseteq seen THEN seen ELSE Reach(next \ seen, seen \cup next)

\* C7: when link_unit is about to be called for the root of a codegen call,
\* every instance unit reachable from the root has a native module.
C7_ReachableCompiledBeforeLink ==
  (stack # <<>> /\ Top.pc = "link") =>
    Reach({Top.unit}, {}) \subseteq llvm_units

None == <<>>
Some(x) == <<x>>

float(t) == t[1] \in {"F32", "F64"}
unsigned_int(t) == t[1] \in {"U64", "U32", "U16", "U8"}
signed_int(t) == t[1] \in {"I64", "I32"}
int(t) == signed_int(t) \/ unsigned_int(t)
pointer(t) == t[1] \in {"Ptr", "Fun"}
number(t) == int(t) \/ float(t)
ArrayOf(t) == <<"Array">> \o t

\* TypeConstraint
Concrete(t) == [kind |-> "Concrete", of |-> t]
Class(c) == [kind |-> "Class", of |-> <<c>>]

\* Mutant: a class contains every type.
contains_type_any(c, t) == TRUE

\* TypeClass::contains_type
contains_type(c, t) == IF c = "Float" THEN float(t) ELSE int(t)

\* TypeClass::default_type
default_type(c) == IF c = "Float" THEN <<"F64">> ELSE <<"I64">>

\* get_type without the default of a class: the class itself comes back.
get_type_raw(res, ts) ==
  IF ts \notin DOMAIN res THEN None ELSE Some(res[ts].of)

\* Inference::get_type: the type of a resolved symbol; a class gives its
\* default type.
get_type(res, ts) ==
  IF ts \notin DOMAIN res THEN None
  ELSE IF res[ts].kind = "Concrete" THEN Some(res[ts].of)
  ELSE Some(default_type(res[ts].of[1]))

\* Mutant: the later constraint wins, whatever was there.
unify_last(a, b) == Some(b)

\* Inference::unify
unify(a, b) ==
  IF a.kind = "Concrete" /\ b.kind = "Concrete"
    THEN IF a.of = b.of THEN Some(a) ELSE None
  ELSE IF a.kind = "Class" /\ b.kind = "Concrete"
    THEN IF contains_type(a.of[1], b.of) THEN Some(Concrete(b.of)) ELSE None
  ELSE IF a.kind = "Concrete" /\ b.kind = "Class"
    THEN IF contains_type(b.of[1], a.of) THEN Some(Concrete(a.of)) ELSE None
  ELSE IF a.of = b.of THEN Some(a) ELSE None

Error(msg, ts) == [msg |-> msg, ts |-> ts]

\* Inference::set_type_constraint, on the solver state st = [resolved, errors].
set_type_constraint(st, ts, tc) ==
  IF ts \in DOMAIN st.resolved
    THEN LET u == unify(st.resolved[ts], tc) IN
         IF u # None
           THEN [st EXCEPT !.resolved = Put(@, ts, u[1])]
           ELSE [st EXCEPT !.errors =
                   Append(@, Error("conflicting types inferred", ts))]
    ELSE [st EXCEPT !.resolved = Put(@, ts, tc)]

\* Inference::set_type
set_type(st, ts, t) == set_type_constraint(st, ts, Concrete(t))

\* The constraints.  Assert(ts, tc); Equalivalent(a, b); Array{array, element};
\* Convert{val, into_type}.
Assert_(ts, tc) == [kind |-> "Assert", a |-> ts, b |-> 0, tc |-> tc]
Equalivalent(a, b) == [kind |-> "Equalivalent", a |-> a, b |-> b, tc |-> Class("-")]
Array(array, element) == [kind |-> "Array", a |-> array, b |-> element, tc |-> Class("-")]
Convert(val, into_type) == [kind |-> "Convert", a |-> val, b |-> 0, tc |-> Concrete(into_type)]

Res(st, used) == [st |-> st, used |-> used]

\* process_constraint, Constraint::Equalivalent
process_equalivalent(st, c) ==
  IF get_type(st.resolved, c.a) # None
    THEN Res(set_type(st, c.b, get_type(st.resolved, c.a)[1]), TRUE)
  ELSE IF get_type(st.resolved, c.b) # None
    THEN Res(set_type(st, c.a, get_type(st.resolved, c.b)[1]), TRUE)
  ELSE Res(st, FALSE)

\* The conversions Constraint::Convert accepts.
convertible(t, into_type) ==
  \/ pointer(t) /\ pointer(into_type)
  \/ number(t) /\ number(into_type)
  \/ pointer(t) /\ unsigned_int(into_type)
  \/ unsigned_int(t) /\ pointer(into_type)

\* process_constraint, Constraint::Convert
process_convert(st, c) ==
  LET t == get_type(st.resolved, c.a) IN
  IF t # None
    THEN IF convertible(t[1], c.tc.of)
           THEN Res(st, TRUE)
           ELSE Res([st EXCEPT !.errors =
                       Append(@, Error("type conversion not supported", c.a))],
                    TRUE)
    ELSE Res(st, FALSE)

\* What process_constraint returns for an Array constraint.
array_result == FALSE

\* process_constraint, Constraint::Array
process_array(st, c) ==
  LET array_type == get_type(st.resolved, c.a)
      st1 == IF array_type # None /\ array_type[1][1] = "Array"
               THEN set_type(st, c.b, Tail(array_type[1]))
               ELSE st
      element_type == get_type(st1.resolved, c.b)
      st2 == IF element_type # None
               THEN set_type(st1, c.a, ArrayOf(element_type[1]))
               ELSE st1
  IN Res(st2, array_result)

\* FunctionDef{name, return_type, args} and FunctionCall{function, args,
\* result} for functions of one argument: a is the symbol of the return type
\* or of the result, b the symbol of the argument, tc carries the name.
Name(name) == [kind |-> "Name", of |-> <<name>>]
FunctionDef(name, return_type, arg) ==
  [kind |-> "FunctionDef", a |-> return_type, b |-> arg, tc |-> Name(name)]
FunctionCall(name, arg, result_ts) ==
  [kind |-> "FunctionCall", a |-> result_ts, b |-> arg, tc |-> Name(name)]

\* FunctionDefinition: module_id, name_in_code and the FunctionSignature
\* (args, return_type).
FunctionDefinition(module_id, name, args, return_type) ==
  [module_id |-> module_id, name_in_code |-> name, args |-> args,
   return_type |-> return_type]

\* self.m.id, the module being inferred; imported modules have other ids.
ThisModule == "this"

\* ModuleInfo::find_function(name, args): the visible function of that name
\* whose argument types are args, when there is exactly one.
find_function(fns, name, args) ==
  LET found == {i \in DOMAIN fns :
                  fns[i].name_in_code = name /\ fns[i].args = args} IN
  IF Cardinality(found) = 1 THEN Some(fns[CHOOSE i \in found : TRUE]) ELSE None

\* process_constraint, Constraint::FunctionDef
process_function_def(st, c) ==
  LET arg_type == get_type(st.resolved, c.b)
      return_type == get_type(st.resolved, c.a)
      name == c.tc.of[1]
  IN
  IF arg_type # None /\ return_type # None
    THEN IF find_function(st.functions, name, <<arg_type[1]>>) # None
           THEN Res([st EXCEPT !.errors =
                       Append(@, Error("function with that name and signature already defined", c.a))],
                    FALSE)
           ELSE Res([st EXCEPT !.functions =
                       Append(@, FunctionDefinition(ThisModule, name,
                                                    <<arg_type[1]>>, return_type[1]))],
                    TRUE)
    ELSE Res(st, FALSE)

\* process_constraint, Constraint::FunctionCall with Function::Name
process_function_call(st, c) ==
  LET arg_type == get_type(st.resolved, c.b)
      r == IF arg_type = None THEN None
           ELSE find_function(st.functions, c.tc.of[1], <<arg_type[1]>>)
  IN
  IF r # None
    THEN Res(set_type(st, c.a, r[1].return_type), TRUE)
    ELSE Res(st, FALSE)

\* Inference::process_constraint
process_constraint(st, c) ==
  CASE c.kind = "Assert" -> Res(set_type_constraint(st, c.a, c.tc), TRUE)
    [] c.kind = "Equalivalent" -> process_equalivalent(st, c)
    [] c.kind = "Convert" -> process_convert(st, c)
    [] c.kind = "Array" -> process_array(st, c)
    [] c.kind = "FunctionDef" -> process_function_def(st, c)
    [] c.kind = "FunctionCall" -> process_function_call(st, c)

\* One pass over the list cs, in order: the solver state after it and the
\* constraints that process_constraint returned false for.
RECURSIVE Pass(_, _, _)
Pass(st, cs, kept) ==
  IF cs = <<>> THEN [st |-> st, kept |-> kept]
  ELSE LET r == process_constraint(st, Head(cs)) IN
       Pass(r.st, Tail(cs), IF r.used THEN kept ELSE Append(kept, Head(cs)))

\* Constraints::symbols: the type symbols of the unit being inferred.
symbols(cs) ==
  UNION {{cs[i].a} \cup (IF cs[i].b = 0 THEN {} ELSE {cs[i].b}) : i \in DOMAIN cs}

\* Constraints::node_symbols: the type symbol of each node.  Nodes 11 and 12
\* carry the symbols 1 and 2; symbol 3 belongs to a variable, not to a node.
NodeIds == {11, 12}
node_symbols(cs) ==
  [n \in {m \in NodeIds : (m - 10) \in symbols(cs)} |-> n - 10]

\* The first loop of infer: every constraint is processed once.
first_pass(fns, cs) ==
  Pass([resolved |-> EmptyMap, errors |-> <<>>, functions |-> fns], cs, <<>>)

\* "Exit if no constraints were resolved in the last pass"
no_progress_never(before, after) == FALSE
no_progress(before, after) == before = after

\* unresolved_constraint_error for the constraints left over, in order.
\* An Equalivalent constraint gives no error.
RECURSIVE unresolved_errors(_)
unresolved_errors(us) ==
  IF us = <<>> THEN <<>>
  ELSE LET c == Head(us)
           e == CASE c.kind = "Equalivalent" -> <<>>
                  [] c.kind = "Convert" -> <<Error("convert not resolved", c.a)>>
                  [] c.kind = "Array" -> <<Error("array literal not resolved", c.a)>>
                  [] c.kind = "Assert" -> <<Error("panic", c.a)>>
                  [] c.kind = "FunctionDef" ->
                       <<Error("function definition not resolved", c.a)>>
                  [] c.kind = "FunctionCall" ->
                       <<Error("function call not resolved", c.a)>>
       IN e \o unresolved_errors(Tail(us))

\* The sanity check of infer.
unresolved_symbol_count(cs, res) ==
  Cardinality(symbols(cs)) - Cardinality(DOMAIN res)

\* "Assign types to all of the nodes"
assign_node_types(cs, res) ==
  [n \in DOMAIN node_symbols(cs) |-> get_type(res, node_symbols(cs)[n])[1]]

\* The end of infer, after the loop: errors for what is left, the sanity
\* check, and the node types when there is no error.
finish(cs, st, us) ==
  LET errs == st.errors \o unresolved_errors(us) IN
  IF \/ \E i \in DOMAIN us : us[i].kind = "Assert"
     \/ unresolved_symbol_count(cs, st.resolved) > 0 /\ errs = <<>>
    THEN [ipc |-> "panic", errors |-> errs, node_type |-> EmptyMap]
  ELSE IF errs # <<>>
    THEN [ipc |-> "done", errors |-> errs, node_type |-> EmptyMap]
  ELSE [ipc |-> "done", errors |-> errs,
        node_type |-> assign_node_types(cs, st.resolved)]

\* The while loop of infer, run to its end from the state after a pass.
RECURSIVE run_loop(_, _, _)
run_loop(st, us, passes) ==
  IF us = <<>> THEN [st |-> st, unused |-> us, total_passes |-> passes]
  ELSE LET p == Pass(st, us, <<>>) IN
       IF no_progress(Len(us), Len(p.kept))
         THEN [st |-> p.st, unused |-> p.kept, total_passes |-> passes + 1]
         ELSE run_loop(p.st, p.kept, passes + 1)

\* Inference::infer as a function of the constraint list.
infer(cs) ==
  LET p == first_pass(<<>>, cs)
      l == run_loop(p.st, p.kept, 1)
  IN finish(cs, l.st, l.unused)

\* --- the solver, pass by pass ---------------------------------------------

MaxConstraints == 3

TypeSymbols == {1, 2, 3}

\* What the generator asserts of a symbol: a literal's class, an annotation.
Asserted == {Class("Integer"), Class("Float"), Concrete(<<"U8">>), Concrete(<<"Bool">>)}

ConstraintChoices ==
  {Assert_(ts, tc) : ts \in TypeSymbols, tc \in Asserted}
  \cup {Equalivalent(p[1], p[2]) : p \in {<<1, 2>>, <<2, 1>>, <<1, 3>>, <<2, 3>>}}
  \cup {Array(3, e) : e \in {1, 2}}
  \cup {Convert(v, <<"U8">>) : v \in {1, 2}}

ConstraintLists ==
  UNION {[1..n -> ConstraintChoices] : n \in 0..MaxConstraints}

\* for c in self.c.constraints.iter() { ... }; let mut total_passes = 1;
infer_first_pass ==
  /\ ipc = "start"
  /\ LET p == first_pass(functions, constraints) IN
       /\ resolved' = p.st.resolved
       /\ errors' = errors \o p.st.errors
       /\ functions' = p.st.functions
       /\ unused' = p.kept
  /\ total_passes' = 1
  /\ ipc' = "loop"
  /\ UNCHANGED <<constraints, node_type>>
  /\ UNCHANGED <<cvars, qvars, jvars, wvars>>

\* One iteration of: while unused_constraints.len() > 0 { ... }
infer_pass ==
  /\ ipc = "loop"
  /\ unused # <<>>
  /\ LET p == Pass([resolved |-> resolved, errors |-> errors,
                    functions |-> functions], unused, <<>>) IN
       /\ resolved' = p.st.resolved
       /\ errors' = p.st.errors
       /\ functions' = p.st.functions
       /\ unused' = p.kept
       /\ ipc' = IF no_progress(Len(unused), Len(p.kept)) THEN "finish" ELSE "loop"
  /\ total_passes' = total_passes + 1
  /\ UNCHANGED <<constraints, node_type>>
  /\ UNCHANGED <<cvars, qvars, jvars, wvars>>

\* The loop condition fails: nothing is pending.
infer_loop_end ==
  /\ ipc = "loop"
  /\ unused = <<>>
  /\ ipc' = "finish"
  /\ UNCHANGED <<constraints, resolved, errors, unused, total_passes, node_type,
                 functions>>
  /\ UNCHANGED <<cvars, qvars, jvars, wvars>>

\* The rest of infer.
infer_finish ==
  /\ ipc = "finish"
  /\ LET f == finish(constraints, [resolved |-> resolved, errors |-> errors], unused) IN
       /\ ipc' = f.ipc
       /\ errors' = f.errors
       /\ node_type' = f.node_type
  /\ UNCHANGED <<constraints, resolved, unused, total_passes, functions>>
  /\ UNCHANGED <<cvars, qvars, jvars, wvars>>

InitInfer ==
  /\ InitStore
  /\ constraints \in ConstraintLists
  /\ resolved = EmptyMap
  /\ errors = <<>>
  /\ unused = <<>>
  /\ total_passes = 0
  /\ ipc = "start"
  /\ node_type = EmptyMap
  /\ functions = <<>>
  /\ CallIdle /\ JitIdle /\ WatcherIdle

NextInfer ==
  \/ infer_first_pass
  \/ infer_pass
  \/ infer_loop_end
  \/ infer_finish

SpecInfer == InitInfer /\ [][NextInfer]_vars

\* ---- properties of the solver ----

Perms(cs) ==
  {[i \in 1..Len(cs) |-> cs[p[i]]] : p \in Permutations(1..Len(cs))}

InferOk == ipc = "done" /\ errors = <<>>

\* C5: when the solver finishes without errors, it also finishes without
\* errors on every permutation of the same constraints, and gives every node
\* the same type.
C5_OrderIndependent ==
  InferOk =>
    \A p \in Perms(constraints) :
      /\ infer(p).ipc = "done"
      /\ infer(p).errors = <<>>
      /\ infer(p).node_type = node_type

TypeNames ==
  {"I64", "I32", "U64", "U32", "U16", "U8", "F32", "F64", "Bool", "Void",
   "Ptr", "Fun", "Array", "Def"}

\* C6: when inference returns Ok, every node that has a type symbol has an
\* entry in node_type, and the entry is a concrete type, never a class.
C6_NodesConcrete ==
  InferOk =>
    /\ DOMAIN node_type = DOMAIN node_symbols(constraints)
    /\ \A n \in DOMAIN node_type :
         node_type[n] # <<>> /\ node_type[n][1] \in TypeNames

C6_Witness ==
  /\ InferOk
  /\ \E n \in DOMAIN node_type :
       /\ resolved[node_symbols(constraints)[n]].kind = "Class"
       /\ node_type[n] = <<"I64">>

\* C8: the number of passes never exceeds the number of constraints plus one;
\* while the loop runs, each pass done beyond the first has removed a pending
\* constraint.
C8_PassesBounded ==
  /\ total_passes <= Len(constraints) + 1
  /\ ipc = "loop" => total_passes + Len(unused) <= Len(constraints) + 1

C8_Witness ==
  /\ ipc = "done"
  /\ total_passes = 3
  /\ unused = <<>>

\* ---- properties of named units and unloading ----

\* No map of the store has an entry under unit id u.
NotStored(u) ==
  /\ u \notin DOMAIN exprs
  /\ u \notin nodes
  /\ u \notin DOMAIN types
  /\ u \notin DOMAIN type_mappings
  /\ u \notin llvm_units
  /\ u \notin DOMAIN vals
  /\ \A n \in DOMAIN named_units : named_units[n] # u

C10_RenameReached ==
  /\ Succeeded /\ last.name # "" /\ last.prev # <<>>
  /\ find_all_dependents(last.pre.type_mappings, last.prev[1]) # {}

\* ---- properties of find_all_dependents ----

MaxSymbols == 3

\* A symbol definition, as far as get_function reads it: its name, whether
\* its type tag has a signature (a function), and its codegen name (an
\* Option; a symbol with none is not a function of the unit's module).
SymbolNames == {"a", "b"}
SymbolDefs ==
  [name : SymbolNames, fun : BOOLEAN, codegen_name : {None, Some("cg")}]

\* types.symbols.values(), in the order the map iterates: the i-th symbol's
\* codegen name, when it has one, is marked with i.
SymbolLists == UNION {[1..n -> SymbolDefs] : n \in 0..MaxSymbols}

\* ee.get_function_address of the i-th symbol's codegen name.
get_function_address(i) == Some(i)

\* .filter(|def| def.name == name && def.type_tag.sig().is_some())
\* .flat_map(|def| def.codegen_name()): the positions it yields, in order.
RECURSIVE matching(_, _, _)
matching(defs, name, i) ==
  IF i > Len(defs) THEN <<>>
  ELSE (IF defs[i].name = name /\ defs[i].fun /\ defs[i].codegen_name # None
          THEN <<i>> ELSE <<>>)
       \o matching(defs, name, i + 1)

\* get_function that does not look for a second match.
get_function_first(defs, name) ==
  LET it == matching(defs, name, 1) IN
  IF it = <<>> THEN None ELSE get_function_address(it[1])

\* c_interface get_function: the value written to out.
get_function(defs, name) ==
  LET it == matching(defs, name, 1)
      address == IF it = <<>> THEN None ELSE get_function_address(it[1])
  IN IF Len(it) > 1 THEN None ELSE address

InitGetFunction ==
  /\ InitStore /\ InferIdle /\ JitIdle /\ WatcherIdle
  /\ call \in [kind : {"get_function"}, a : SymbolLists, b : SymbolNames]
  /\ result = NoCall

c_get_function ==
  /\ call.kind = "get_function" /\ result = NoCall
  /\ result' = [kind |-> "out", a |-> get_function(call.a, call.b), b |-> <<>>]
  /\ UNCHANGED <<cvars, ivars, jvars, wvars, call>>

NextGetFunction == c_get_function

SpecGetFunction == InitGetFunction /\ [][NextGetFunction]_vars

\* The function symbols named name: the symbols of that name that have a
\* signature and a codegen name.
FunctionSymbols(defs, name) ==
  {i \in DOMAIN defs :
     defs[i].name = name /\ defs[i].fun /\ defs[i].codegen_name # None}

Atom(s) == [head |-> s, kids |-> <<>>, list |-> FALSE]
List(name, children) == [head |-> name, kids |-> children, list |-> TRUE]

\* Expr::try_construct: the head and children of a constructor node.
try_construct(e) == IF e.list THEN Some(<<e.head, e.kids>>) ELSE None

\* The bounds on the children of a node and on the args of a call.
MaxChildren == 2
MaxArgs == 2

Heads == {"$", "-"}
Trees0 == {Atom("x"), Atom("y")}
Trees1 ==
  Trees0 \cup
  {List(h, ks) : h \in Heads, ks \in UNION {[1..n -> Trees0] : n \in 0..MaxChildren}}
Trees2 ==
  Trees0 \cup
  {List(h, ks) : h \in Heads, ks \in UNION {[1..n -> Trees1] : n \in 0..MaxChildren}}

\* The expressions user code passes as args: a literal, and a quote that
\* holds a '$' node itself.
ArgTrees == {Atom("p"), List("$", <<Atom("q")>>)}
ArgLists == UNION {[1..n -> ArgTrees] : n \in 0..MaxArgs}

Templated(e, next_arg) == [expr |-> e, next_arg |-> next_arg, ok |-> TRUE]
\* args[*next_arg] past the end of the slice: the call panics.
OutOfBounds == [expr |-> Atom("!"), next_arg |-> 0, ok |-> FALSE]

\* fn template(e, args, next_arg), and its loop over the children of a
\* node; next_arg counts the args used so far.
RECURSIVE template(_, _, _)
RECURSIVE template_children(_, _, _, _)
template(e, args, next_arg) ==
  IF try_construct(e) # None
    THEN IF try_construct(e)[1][1] = "$"
           THEN IF next_arg + 1 \in DOMAIN args
                  THEN Templated(args[next_arg + 1], next_arg + 1)
                  ELSE OutOfBounds
           ELSE LET r == template_children(try_construct(e)[1][2], args,
                                           next_arg, <<>>)
                IN IF r.ok THEN Templated(List(e.head, r.expr), r.next_arg)
                   ELSE OutOfBounds
    ELSE Templated(e, next_arg)
template_children(es, args, next_arg, children) ==
  IF es = <<>> THEN Templated(children, next_arg)
  ELSE LET r == template(Head(es), args, next_arg) IN
       IF r.ok
         THEN template_children(Tail(es), args, r.next_arg, Append(children, r.expr))
         ELSE OutOfBounds

\* template_quote that hands the same arg to every '$' node.
template_quote_first_arg(e, args) ==
  template(e, IF args = <<>> THEN args ELSE [i \in 1..8 |-> args[1]], 0)

\* c_interface template_quote
template_quote(e, args) == template(e, args, 0)

InitTemplateQuote ==
  /\ InitStore /\ InferIdle /\ JitIdle /\ WatcherIdle
  /\ call \in [kind : {"template_quote"}, a : Trees2, b : ArgLists]
  /\ result = NoCall

c_template_quote ==
  /\ call.kind = "template_quote" /\ result = NoCall
  /\ LET r == template_quote(call.a, call.b) IN
       result' = IF r.ok THEN [kind |-> "out", a |-> r.expr, b |-> <<>>]
                 ELSE [kind |-> "panic", a |-> r.expr, b |-> <<>>]
  /\ UNCHANGED <<cvars, ivars, jvars, wvars, call>>

NextTemplateQuote == c_template_quote

SpecTemplateQuote == InitTemplateQuote /\ [][NextTemplateQuote]_vars

\* ---- properties of template_quote ----

\* The paths of all '$' nodes of e, in left-to-right depth-first order.
RECURSIVE AllMarkers(_, _)
RECURSIVE AllMarkersOf(_, _, _)
AllMarkers(e, path) ==
  (IF e.list /\ e.head = "$" THEN <<path>> ELSE <<>>)
  \o AllMarkersOf(e.kids, path, 1)
AllMarkersOf(es, path, i) ==
  IF i > Len(es) THEN <<>>
  ELSE AllMarkers(es[i], Append(path, i)) \o AllMarkersOf(es, path, i + 1)

\* The paths of the '$' nodes of e that are not inside another '$' node.
RECURSIVE Markers(_, _)
RECURSIVE MarkersOf(_, _, _)
Markers(e, path) ==
  IF e.list /\ e.head = "$" THEN <<path>>
  ELSE MarkersOf(e.kids, path, 1)
MarkersOf(es, path, i) ==
  IF i > Len(es) THEN <<>>
  ELSE Markers(es[i], Append(path, i)) \o MarkersOf(es, path, i + 1)

\* Whether e has a node at path, and the subtree there.
RECURSIVE HasPath(_, _)
HasPath(e, path) ==
  \/ path = <<>>
  \/ Head(path) \in DOMAIN e.kids /\ HasPath(e.kids[Head(path)], Tail(path))
RECURSIVE SubtreeAt(_, _)
SubtreeAt(e, path) ==
  IF path = <<>> THEN e ELSE SubtreeAt(e.kids[Head(path)], Tail(path))

\* e with the subtree at each of the paths cut out.
RECURSIVE Mask(_, _, _)
Mask(e, path, paths) ==
  IF \E i \in DOMAIN paths : paths[i] = path THEN Atom("_")
  ELSE [e EXCEPT !.kids = [i \in DOMAIN e.kids |->
                             Mask(e.kids[i], Append(path, i), paths)]]

\* The result is the template with the node at paths[i] replaced by args[i],
\* and nothing else changed.
Substituted(tmpl, paths, args, res) ==
  /\ \A i \in DOMAIN paths : HasPath(res, paths[i]) /\ SubtreeAt(res, paths[i]) = args[i]
  /\ Mask(res, <<>>, paths) = Mask(tmpl, <<>>, paths)

ConvTypes ==
  {<<"I64">>, <<"I32">>, <<"U64">>, <<"U32">>, <<"U16">>, <<"U8">>,
   <<"F32">>, <<"F64">>, <<"Bool">>, <<"Ptr", "U8">>, <<"Ptr", "I64">>,
   <<"Fun", "sig">>}

\* "v as T" for a value v of type S: the value's symbol is asserted to be S
\* and converted into T.  The generator may emit the two in either order.
ConvertLists ==
  UNION {{<<Assert_(1, Concrete(S)), Convert(1, T)>>,
          <<Convert(1, T), Assert_(1, Concrete(S))>>} :
         S \in ConvTypes, T \in ConvTypes}

InitConvert ==
  /\ InitStore
  /\ constraints \in ConvertLists
  /\ resolved = EmptyMap
  /\ errors = <<>>
  /\ unused = <<>>
  /\ total_passes = 0
  /\ ipc = "start"
  /\ node_type = EmptyMap
  /\ functions = <<>>
  /\ CallIdle /\ JitIdle /\ WatcherIdle

SpecConvert == InitConvert /\ [][NextInfer]_vars

\* The type converted from and the type converted into.
ConvertFrom ==
  constraints[CHOOSE i \in DOMAIN constraints : constraints[i].kind = "Assert"].tc.of
ConvertInto ==
  constraints[CHOOSE i \in DOMAIN constraints : constraints[i].kind = "Convert"].tc.of

\* The solver has finished a list that holds a Convert constraint.
Converted ==
  /\ ipc = "done"
  /\ \E i \in DOMAIN constraints : constraints[i].kind = "Convert"
  /\ \E i \in DOMAIN constraints : constraints[i].kind = "Assert"

\* The conversion policy: pointer and pointer, number and number, pointer
\* and u64 in either direction.
ConversionPolicy(S, T) ==
  \/ pointer(S) /\ pointer(T)
  \/ number(S) /\ number(T)
  \/ pointer(S) /\ T = <<"U64">>
  \/ S = <<"U64">> /\ pointer(T)

\* C15: a Convert from a resolved type S into T is accepted without error
\* exactly when S and T are both pointers, both numbers, or a pointer and
\* u64; every other pair records a "type conversion not supported" error.
C15_ConvertPolicy ==
  Converted =>
    IF ConversionPolicy(ConvertFrom, ConvertInto)
      THEN errors = <<>>
      ELSE errors = <<Error("type conversion not supported", 1)>>

\* A pointer is converted into u8 and the solver records no error.
C15_PointerIntoU8 ==
  Converted /\ pointer(ConvertFrom) /\ ConvertInto = <<"U8">> /\ errors = <<>>

\* ---- literals ----

\* The constraints of the list that mention the symbol ts.
Mentions(ts) ==
  {i \in DOMAIN constraints : constraints[i].a = ts \/ constraints[i].b = ts}

\* ts is the symbol of a literal of class c: the generator asserts the class
\* of it, once.
Literal(ts, c) ==
  /\ \E i \in Mentions(ts) : constraints[i] = Assert_(ts, Class(c))
  /\ \A i, j \in Mentions(ts) :
       constraints[i].kind = "Assert" /\ constraints[j].kind = "Assert" => i = j

\* Nothing but its own assertion constrains the literal ts.
Unconstrained(ts) ==
  \A i \in Mentions(ts) : constraints[i].kind = "Assert"

\* The context of the literal ts is a location x of type t: x is asserted to
\* be t, the literal is made equivalent to x, and nothing else mentions either.
NarrowedBy(ts, x, t) ==
  /\ x # ts
  /\ \E i \in Mentions(x) : constraints[i] = Assert_(x, Concrete(t))
  /\ \A i \in Mentions(x) :
       constraints[i].kind = "Assert" => constraints[i].tc = Concrete(t)
  /\ \E i \in Mentions(ts) : constraints[i].kind = "Equalivalent"
  /\ \A i \in Mentions(ts) \cup Mentions(x) :
       \/ constraints[i].kind = "Assert"
       \/ constraints[i] \in {Equalivalent(x, ts), Equalivalent(ts, x)}

Conflict(e) == e.msg = "conflicting types inferred"

\* C16: a literal that nothing else constrains resolves to the default type
\* of its class (i64, f64); a literal whose context is a location of another
\* type of its class resolves to that type, with no conflicting-types error,
\* in whatever order the constraints are processed.
C16_LiteralDefaultsOrNarrows ==
  ipc = "done" =>
    \A ts \in TypeSymbols : \A c \in {"Integer", "Float"} :
      Literal(ts, c) =>
        /\ Unconstrained(ts) => get_type(resolved, ts) = Some(default_type(c))
        /\ \A x \in TypeSymbols : \A t \in {<<"U8">>} :
             NarrowedBy(ts, x, t) /\ contains_type(c, t) =>
               /\ resolved[ts] = Concrete(t)
               /\ \A i \in DOMAIN errors : ~Conflict(errors[i])

\* An integer literal assigned into a location of type u8 ends with a
\* conflicting-types error.
C16_NarrowingConflict ==
  /\ ipc = "done"
  /\ \E ts, x \in TypeSymbols :
       /\ Literal(ts, "Integer") /\ NarrowedBy(ts, x, <<"U8">>)
       /\ \E i \in DOMAIN errors : Conflict(errors[i])

\* =========================================================================
\* Function definitions and calls (inference.rs, FunctionDef / FunctionCall)
\* =========================================================================

\* The argument and return types of the functions defined.
FunTypes == {<<"I64">>, <<"U64">>}

\* The functions of imported modules.
Imported ==
  {<<>>, <<FunctionDefinition("imported", "f", <<<<"I64">>>>, <<"I64">>)>>}

\* fun f(a : A) -> R: the symbols arg and ret stand for a and for the body.
DefBlock(arg, ret, A, R) ==
  <<Assert_(arg, Concrete(A)), Assert_(ret, Concrete(R)), FunctionDef("f", ret, arg)>>

\* f(x) for a value x of type X or an integer literal x.
CallBlock(arg, res, X) == <<Assert_(arg, X), FunctionCall("f", arg, res)>>

\* A unit with two definitions of f and one call of f, in any order.
FunctionLists ==
  UNION {LET b == <<DefBlock(1, 2, A1, R1), DefBlock(3, 4, A2, R2),
                    CallBlock(5, 6, X)>>
         IN {b[p[1]] \o b[p[2]] \o b[p[3]] : p \in Permutations(1..3)} :
         A1 \in FunTypes, R1 \in FunTypes, A2 \in FunTypes, R2 \in FunTypes,
         X \in {Concrete(<<"I64">>), Concrete(<<"U64">>), Class("Integer")}}

InitFunctions ==
  /\ InitStore
  /\ constraints \in FunctionLists
  /\ resolved = EmptyMap
  /\ errors = <<>>
  /\ unused = <<>>
  /\ total_passes = 0
  /\ ipc = "start"
  /\ node_type = EmptyMap
  /\ functions \in Imported
  /\ CallIdle /\ JitIdle /\ WatcherIdle

SpecFunctions == InitFunctions /\ [][NextInfer]_vars

\* ---- properties ----

FunctionDefs == {i \in DOMAIN constraints : constraints[i].kind = "FunctionDef"}
FunctionCalls == {i \in DOMAIN constraints : constraints[i].kind = "FunctionCall"}

\* The signature a FunctionDef constraint defines: argument types and return
\* type, as annotated.
ArgsOf(i) == <<get_type(resolved, constraints[i].b)[1]>>
ReturnOf(i) == get_type(resolved, constraints[i].a)[1]

\* The registered functions named f with the given signature.
Registered(args, ret) ==
  {j \in DOMAIN functions :
     /\ functions[j].name_in_code = "f"
     /\ functions[j].args = args
     /\ functions[j].return_type = ret}

\* The definition i has the name and signature of an imported function or of
\* another definition of the unit.
Redefinition(i) ==
  \/ \E j \in Registered(ArgsOf(i), ReturnOf(i)) : functions[j].module_id # ThisModule
  \/ \E k \in FunctionDefs \ {i} : ArgsOf(k) = ArgsOf(i) /\ ReturnOf(k) = ReturnOf(i)

RedefinitionError(e) ==
  e.msg = "function with that name and signature already defined"

\* C17: every signature defined for a name is registered once, never twice;
\* a redefinition error is recorded exactly when a definition has the name
\* and signature of a function already visible; a call resolves to the
\* function whose argument types match.
C17_Overloading ==
  ipc = "done" =>
    /\ \A i \in FunctionDefs : Cardinality(Registered(ArgsOf(i), ReturnOf(i))) = 1
    /\ (\E i \in FunctionDefs : Redefinition(i))
         <=> (\E n \in DOMAIN errors : RedefinitionError(errors[n]))
    /\ \A c \in FunctionCalls : \A j \in DOMAIN functions :
         functions[j].args = <<get_type(resolved, constraints[c].b)[1]>>
           => resolved[constraints[c].a] = Concrete(functions[j].return_type)

\* Two definitions with the same argument type and different return types:
\* a redefinition error is recorded and one of them is not registered.
C17_ReturnTypeIgnored ==
  /\ ipc = "done"
  /\ \E i, k \in FunctionDefs :
       /\ ArgsOf(i) = ArgsOf(k) /\ ReturnOf(i) # ReturnOf(k)
       /\ Registered(ArgsOf(i), ReturnOf(i)) = {}
  /\ \E n \in DOMAIN errors : RedefinitionError(errors[n])

\* The same statement with functions told apart by argument types alone.
OverloadingByArguments ==
  ipc = "done" =>
    /\ \A i \in FunctionDefs :
         Cardinality(UNION {Registered(ArgsOf(i), r) : r \in FunTypes}) = 1
    /\ (\E i \in FunctionDefs :
          \/ \E r \in FunTypes : \E j \in Registered(ArgsOf(i), r) :
               functions[j].module_id # ThisModule
          \/ \E k \in FunctionDefs \ {i} : ArgsOf(k) = ArgsOf(i))
         <=> (\E n \in DOMAIN errors : RedefinitionError(errors[n]))
    /\ \A c \in FunctionCalls : \A j \in DOMAIN functions :
         functions[j].args = <<get_type(resolved, constraints[c].b)[1]>>
           => resolved[constraints[c].a] = Concrete(functions[j].return_type)

\* ---- array literals ----

ArrayConstraints == {i \in DOMAIN constraints : constraints[i].kind = "Array"}

ArrayError(e) == e.msg = "array literal not resolved"

\* C18: for an Array(arr, elem) constraint whose element resolves to T and
\* whose array symbol nothing else asserts, the solver sets arr to
\* array-of(T), the constraint does not stay pending, and no "array literal
\* not resolved" error is recorded.
C18_ArraySatisfied ==
  ipc = "done" =>
    \A i \in ArrayConstraints :
      LET arr == constraints[i].a
          elem == constraints[i].b
      IN (/\ get_type(resolved, elem) # None
          /\ \A j \in Mentions(arr) : constraints[j].kind = "Array")
         => /\ resolved[arr] = Concrete(ArrayOf(get_type(resolved, elem)[1]))
            /\ \A k \in DOMAIN unused : unused[k] # constraints[i]
            /\ \A n \in DOMAIN errors : ~ArrayError(errors[n])

\* An array literal of integers: the array is typed array-of(i64), and the
\* solver still ends with the error.
C18_ArrayErrorRecorded ==
  /\ ipc = "done"
  /\ constraints = <<Assert_(1, Class("Integer")), Array(3, 1)>>
  /\ resolved[3] = Concrete(ArrayOf(<<"I64">>))
  /\ errors = <<Error("array literal not resolved", 3)>>

\* =========================================================================
\* The interpreter (compiler/legacy/jit.rs): modules compiled one after the
\* other in one instance
\* =========================================================================

MaxRuns == 3

GlobalNames == {"foo"}
FunctionNames == {"foobar"}

\* What the top-level expression of a module is: nothing, a reference to a
\* global, a call of a function, or a value of a type that cannot be returned
\* from a top-level function.
Tops ==
  {[kind |-> "void", name |-> ""], [kind |-> "unsupported", name |-> ""]}
  \cup {[kind |-> "global", name |-> n] : n \in GlobalNames}
  \cup {[kind |-> "call", name |-> n] : n \in FunctionNames}

\* A module: "static n = v" for some global names, "fun f() { v }" for some
\* function names, and a top-level expression.
JitPrograms ==
  [statics : UNION {[S -> {5, 6}] : S \in SUBSET GlobalNames},
   funs : UNION {[S -> {843}] : S \in SUBSET FunctionNames},
   top : Tops]

\* CompiledModule: the typed module (info) and whether its top-level function
\* has run in its execution engine (ee).
CompiledModule(prog) == [info |-> prog, initialised |-> FALSE]

\* Mutant: only the module compiled last is handed to compile_module.
external_modules_last(mods) ==
  IF mods = <<>> THEN <<>> ELSE <<mods[Len(mods)]>>

\* self.modules.as_slice(), the external_modules of compile_module
external_modules(mods) == mods

\* The globals and the functions the external modules define.
find_global(external, name) ==
  {i \in DOMAIN external : name \in DOMAIN external[i].info.statics}
find_fun(external, name) ==
  {i \in DOMAIN external : name \in DOMAIN external[i].info.funs}

\* typecheck::to_typed_module: a definition of a name that an external
\* module defines is an error, and so is a reference to a name that neither
\* the module nor an external module defines.
to_typed_module(external, prog) ==
  /\ \A n \in DOMAIN prog.statics : find_global(external, n) = {}
  /\ \A n \in DOMAIN prog.funs : find_fun(external, n) = {}
  /\ prog.top.kind = "global" =>
       prog.top.name \in DOMAIN prog.statics \/ find_global(external, prog.top.name) # {}
  /\ prog.top.kind = "call" =>
       prog.top.name \in DOMAIN prog.funs \/ find_fun(external, prog.top.name) # {}

\* The values a read of the global n of module m can give: what the
\* top-level function of m stored, or, when it never ran, whatever the
\* global's storage holds.
GlobalValues(m, n) ==
  IF m.initialised THEN {m.info.statics[n]} ELSE {0, m.info.statics[n]}

\* The values the top-level function of prog can return, linked against the
\* external modules.
TopValues(external, prog) ==
  CASE prog.top.kind = "void" -> {<<"Void", 0>>}
    [] prog.top.kind = "global" ->
         IF prog.top.name \in DOMAIN prog.statics
           THEN {<<"I64", prog.statics[prog.top.name]>>}
           ELSE {<<"I64", v>> :
                   v \in UNION {GlobalValues(external[i], prog.top.name) :
                                  i \in find_global(external, prog.top.name)}}
    [] prog.top.kind = "call" ->
         IF prog.top.name \in DOMAIN prog.funs
           THEN {<<"I64", prog.funs[prog.top.name]>>}
           ELSE {<<"I64", external[i].info.funs[prog.top.name]>> :
                   i \in find_fun(external, prog.top.name)}

Ran(prog, ok, val) ==
  [kind |-> "run", ok |-> ok, val |-> val, prog |-> prog,
   before |-> Len(modules), n |-> ran.n + 1]

\* InterpreterInner::run_expression / compile_and_initialise_module
run_expression(prog) ==
  LET external == external_modules(modules) IN
  /\ ran.n < MaxRuns
  /\ IF ~to_typed_module(external, prog)
       THEN /\ ran' = Ran(prog, FALSE, <<"Error", 0>>)
            /\ UNCHANGED modules
       ELSE IF prog.top.kind = "unsupported"
         THEN /\ modules' = Append(modules, CompiledModule(prog))
              /\ ran' = Ran(prog, FALSE, <<"Error", 0>>)
         ELSE /\ modules' = Append(modules,
                              [CompiledModule(prog) EXCEPT !.initialised = TRUE])
              /\ \E v \in TopValues(external, prog) : ran' = Ran(prog, TRUE, v)
  /\ UNCHANGED <<cvars, ivars, qvars, wvars>>

InitJit ==
  /\ InitStore /\ InferIdle /\ CallIdle /\ WatcherIdle
  /\ modules = <<>>
  /\ ran = NoRun

NextJit == \E prog \in JitPrograms : run_expression(prog)

SpecJit == InitJit /\ [][NextJit]_vars

\* ---- properties ----

\* The module run last defines nothing that a module compiled before it
\* defines.
DefinesNew ==
  /\ \A n \in DOMAIN ran.prog.statics : \A i \in 1..ran.before :
       n \notin DOMAIN modules[i].info.statics
  /\ \A n \in DOMAIN ran.prog.funs : \A i \in 1..ran.before :
       n \notin DOMAIN modules[i].info.funs

CompilesOnlyNew ==
  \A i \in DOMAIN stack :
    stack[i].pc = "compile" => stack[i].to_compile \cap llvm_units = {}

\* The step is an unload_module.
UnloadStep == last' # last /\ last'.kind = "unload"

\* The units a step takes out of the store: those of an unload_module, and
\* those of a load under a name that is in use.
StepRemoved ==
  IF UnloadStep THEN Removed(type_mappings, last'.unit)
  ELSE IF loads' # loads /\ stack' # <<>> /\ stack'[Len(stack')].prev # <<>>
    THEN Removed(type_mappings, stack'[Len(stack')].prev[1])
  ELSE {}

EquivalentConstraints ==
  {i \in DOMAIN constraints : constraints[i].kind = "Equalivalent"}

C21_NarrowedAfterwards ==
  /\ InferOk
  /\ constraints = <<Assert_(1, Class("Integer")), Equalivalent(1, 2),
                     Assert_(1, Concrete(<<"U8">>))>>
  /\ get_type(resolved, 1) = Some(<<"U8">>)
  /\ get_type(resolved, 2) = Some(<<"I64">>)

\* ---- the resolution table ----

\* The entry new refines the entry old: a concrete type stays, a class stays
\* or becomes a concrete type that it contains.
Refines(old, new) ==
  \/ new = old
  \/ /\ old.kind = "Class" /\ new.kind = "Concrete"
     /\ contains_type(old.of[1], new.of)

\* What a type symbol can be set to.
SetChoices ==
  Asserted \cup {Concrete(<<"I64">>), Concrete(<<"F64">>), Concrete(<<"Array", "U8">>)}

\* One more set_type_constraint on the table as it is: the entry is refined,
\* or, on a conflict, the table is left as it is and one error is recorded.
SetRefines ==
  \A ts \in DOMAIN resolved : \A tc \in SetChoices :
    LET st == [resolved |-> resolved, errors |-> errors, functions |-> functions]
        r == set_type_constraint(st, ts, tc)
    IN /\ DOMAIN r.resolved = DOMAIN resolved
       /\ Refines(resolved[ts], r.resolved[ts])
       /\ unify(resolved[ts], tc) = None =>
            /\ r.resolved = resolved
            /\ r.errors = Append(errors, Error("conflicting types inferred", ts))
       /\ unify(resolved[ts], tc) # None => r.errors = errors

\* C22: during infer no entry of the resolution table is removed, an entry
\* changes only to a refinement of itself, and a conflicting set_type
\* records an error and leaves the entry as it is.
C22_ResolutionOnlyRefines ==
  /\ []SetRefines
  /\ [][\A ts \in DOMAIN resolved :
          ts \in DOMAIN resolved' /\ Refines(resolved[ts], resolved'[ts])]_vars

\* A class was narrowed to a member, and a later conflicting assertion left
\* the entry as it was and recorded an error.
C22_Witness ==
  /\ ipc = "done"
  /\ constraints = <<Assert_(1, Class("Integer")), Assert_(1, Concrete(<<"U8">>)),
                     Assert_(1, Concrete(<<"Bool">>))>>
  /\ resolved[1] = Concrete(<<"U8">>)
  /\ errors = <<Error("conflicting types inferred", 1)>>

\* =========================================================================
\* Inference::unify as a function of its two arguments
\* =========================================================================

\* The type constraints unify is applied to.
TypeConstraints ==
  {Concrete(t) : t \in ConvTypes \cup {<<"Array", "U8">>, <<"Void">>}}
  \cup {Class("Integer"), Class("Float")}

InitUnify ==
  /\ InitStore /\ InferIdle /\ JitIdle /\ WatcherIdle
  /\ call \in [kind : {"unify"}, a : TypeConstraints, b : TypeConstraints]
  /\ result = NoCall

c_unify ==
  /\ call.kind = "unify" /\ result = NoCall
  /\ result' = [kind |-> "out", a |-> unify(call.a, call.b), b |-> <<>>]
  /\ UNCHANGED <<cvars, ivars, jvars, wvars, call>>

NextUnify == c_unify

SpecUnify == InitUnify /\ [][NextUnify]_vars

\* ---- properties ----

\* The types of a class: Integer holds the integer primitives, Float the
\* floating point primitives.
Members(c) ==
  IF c = "Integer"
    THEN {<<"I64">>, <<"I32">>, <<"U64">>, <<"U32">>, <<"U16">>, <<"U8">>}
    ELSE {<<"F32">>, <<"F64">>}

\* The unification table.
UnifyTable(a, b) ==
  IF a.kind = "Concrete" /\ b.kind = "Concrete"
    THEN IF a.of = b.of THEN Some(Concrete(a.of)) ELSE None
  ELSE IF a.kind = "Class" /\ b.kind = "Class"
    THEN IF Members(a.of[1]) \subseteq Members(b.of[1]) THEN Some(a)
         ELSE IF Members(b.of[1]) \subseteq Members(a.of[1]) THEN Some(b)
         ELSE None
  ELSE LET c == IF a.kind = "Class" THEN a ELSE b
           t == IF a.kind = "Class" THEN b ELSE a
       IN IF t.of \in Members(c.of[1]) THEN Some(Concrete(t.of)) ELSE None

\* C23: unify gives what the unification table gives, and the same for both
\* orders of its arguments.
C23_UnifyFollowsTable ==
  result.kind = "out" /\ call.kind = "unify" =>
    /\ result.a = UnifyTable(call.a, call.b)
    /\ result.a = UnifyTable(call.b, call.a)

\* unify of a concrete type and the class that contains it, class second.
C23_Witness ==
  /\ call = [kind |-> "unify", a |-> Concrete(<<"U8">>), b |-> Class("Integer")]
  /\ result.kind = "out"
  /\ result.a = Some(Concrete(<<"U8">>))

\* ---- binding of a call by name ----

\* The constraint of the call's argument in the table res: a concrete type,
\* or the class of an unannotated literal.
Target(res, c) == res[constraints[c].b]
TargetOf(c) == Target(resolved, c)

\* The functions among fns named as the call names whose argument type
\* unifies with the call's target.
UnifyingCandidates(fns, res, c) ==
  {j \in DOMAIN fns :
     /\ fns[j].name_in_code = constraints[c].tc.of[1]
     /\ unify(Target(res, c), Concrete(fns[j].args[1])) # None}

\* The pass binds the call c: the symbol of its result gets its type.
Binds(c) ==
  /\ constraints[c].a \notin DOMAIN resolved
  /\ constraints[c].a \in DOMAIN resolved'

DefaultedArg(c) ==
  IF TargetOf(c).kind = "Concrete" THEN TargetOf(c).of
  ELSE IF TargetOf(c).of[1] = "Integer" THEN <<"I64">> ELSE <<"F64">>

\* The functions named as the call names whose argument type is the
\* defaulted type of the call's argument.
ExactCandidates(c) ==
  {j \in DOMAIN functions :
     /\ functions[j].name_in_code = constraints[c].tc.of[1]
     /\ functions[j].args = <<DefaultedArg(c)>>}

UnresolvedMessages ==
  {"convert not resolved", "array literal not resolved",
   "function definition not resolved", "function call not resolved"}

\* How many errors of the list say msg of the symbol ts.
RECURSIVE CountErrors(_, _, _)
CountErrors(es, msg, ts) ==
  IF es = <<>> THEN 0
  ELSE (IF Head(es) = Error(msg, ts) THEN 1 ELSE 0) + CountErrors(Tail(es), msg, ts)

\* How many errors of the list are unresolved-constraint errors.
RECURSIVE CountUnresolved(_)
CountUnresolved(es) ==
  IF es = <<>> THEN 0
  ELSE (IF Head(es).msg \in UnresolvedMessages THEN 1 ELSE 0) + CountUnresolved(Tail(es))

\* C25: at the end of infer there is one unresolved-constraint error for
\* each constraint still pending and none for the others, and no error is
\* recorded more than once for being met again on a later pass.
C25_OneErrorPerPending ==
  ipc \in {"done", "panic"} =>
    /\ CountUnresolved(errors) = Len(unused)
    /\ \A i \in DOMAIN errors :
         CountErrors(errors, errors[i].msg, errors[i].ts) = 1

\* A definition that repeats a visible signature: the redefinition error is
\* recorded on the first pass and again on the next.
C25_ErrorRepeated ==
  /\ ipc = "done"
  /\ \E i \in FunctionDefs :
       CountErrors(errors, "function with that name and signature already defined",
                   constraints[i].a) >= 2

\* An Equalivalent constraint is still pending at the end of infer and no
\* error stands for it.
C25_PendingWithoutError ==
  /\ ipc = "done"
  /\ \E k \in DOMAIN unused : unused[k].kind = "Equalivalent"
  /\ CountUnresolved(errors) < Len(unused)

\* ---- the exit of the loop ----

\* Processing the pending constraint c once more changes nothing: the
\* resolution table stays as it is and the constraint stays pending.
Settled(c) ==
  LET r == process_constraint([resolved |-> resolved, errors |-> errors,
                               functions |-> functions], c)
  IN r.st.resolved = resolved /\ ~r.used

\* C26: when the loop of infer has exited, processing a pending constraint
\* once more would change nothing; and a pass that assigned a type and left
\* constraints pending is followed by another pass.
C26_StopsAtFixedPoint ==
  /\ [](ipc = "finish" => \A k \in DOMAIN unused : Settled(unused[k]))
  /\ [][(ipc = "loop" /\ resolved' # resolved /\ unused' # <<>>)
          => ipc' = "loop"]_vars

\* The loop has exited after a pass in which an Array constraint gave the
\* array its type, and a pending Equalivalent on the array could now be
\* resolved.
C26_ExitBeforeFixedPoint ==
  /\ ipc = "finish"
  /\ constraints = <<Equalivalent(2, 3), Array(3, 1), Assert_(1, Concrete(<<"U8">>))>>
  /\ resolved[3] = Concrete(<<"Array", "U8">>)
  /\ 2 \notin DOMAIN resolved
  /\ unused = <<Equalivalent(2, 3), Array(3, 1)>>

\* =========================================================================
\* Loads of a recursive polymorphic function
\* =========================================================================

\* A module that defines the polymorphic function h, whose body calls h at
\* the signature it is instantiated with, and calls it or not; and a module
\* without polymorphism.
RecursivePrograms ==
  [defs : {{"h"}}, refs : {{}} \cup {{<<"h", s>>} : s \in Sigs}, ret : {"I64"}]
  \cup {[defs |-> {}, refs |-> {}, ret |-> "I64"]}

NextRecursive ==
  \/ \E prog \in RecursivePrograms, parsed \in BOOLEAN : load_module(prog, parsed)
  \/ \E prog \in RecursivePrograms : c_load_module("", prog)
  \/ \E built \in BOOLEAN : structure(built)
  \/ \E inferred \in BOOLEAN : \E du \in DefUnits : typecheck(inferred, du)
  \/ \E r \in TopRem, checked \in BOOLEAN : tc_reference(r, checked)
  \/ tc_next
  \/ codegen_search
  \/ \E done \in SUBSET TopToCompile : compile_units(done)
  \/ link_units
  \/ run_top_level
  \/ initialise

SpecRecursive == Init /\ [][NextRecursive]_vars

\* The compiler thread keeps running: a step that can be taken is taken.
SpecRecursiveLive == SpecRecursive /\ WF_vars(NextRecursive)

\* ---- properties ----

\* A load is in its materialization loop or in the search of codegen.
Searching == stack # <<>> /\ Top.pc \in {"tc_inst", "codegen"}

\* C27: the materialization loop and the search of codegen terminate, also
\* when an instance unit refers to its own (symbol, signature): a load that
\* is in one of them leaves it.
C27_SearchesTerminate == Searching ~> ~Searching

\* The search of codegen is at an instance unit that has no native module
\* and refers to its own (symbol, signature): the unit is popped and queued
\* again, for ever.
C27_QueuedAgain ==
  /\ stack # <<>> /\ Top.pc = "codegen" /\ Top.queue # <<>>
  /\ Head(Top.queue) \in DOMAIN type_mappings
  /\ \A r \in type_mappings[Head(Top.queue)] : HasInstance(poly_functions, r)
  /\ Head(Top.queue) \in
       units_without_module(poly_functions, llvm_units, type_mappings[Head(Top.queue)])

\* =========================================================================
\* Instance units of a unit that runs
\* =========================================================================

\* C28: while the top-level function of a unit runs, every instance unit
\* reachable from the unit through polymorphic references has a native
\* module and has been linked.
C28_RunningUnitsLinked ==
  \A i \in 1..Len(stack) :
    stack[i].pc = "running" =>
      Reach({stack[i].unit}, {}) \subseteq (llvm_units \cap linked)

\* A unit runs that reaches an instance unit whose native module, left by
\* an earlier failed load, was never linked.
C28_CompiledNeverLinked ==
  \E i \in 1..Len(stack) :
    /\ stack[i].pc = "running"
    /\ \E u \in Reach({stack[i].unit}, {}) : u \in llvm_units /\ u \notin linked

\* =========================================================================
\* The file watcher (c_interface.rs:293-337)
\* =========================================================================

\* The number of events the watcher thread sends.
MaxEvents == 3

\* Path components: a name, the two separators, and a code unit that is not
\* valid Unicode (an unpaired surrogate of a Windows file name).
Backslash == "\\"
Unpaired == "D800"
WatchedPaths == {<<"a">>, <<"d", Backslash, "a">>, <<"d", Unpaired>>}

\* DebouncedEvent: Write(path), and the variants that are not Write.
Write_(path) == [kind |-> "Write", path |-> path]
DebouncedEvents ==
  {Write_(p) : p \in WatchedPaths}
  \cup {[kind |-> "Create", path |-> <<"a">>], [kind |-> "Rescan", path |-> <<>>]}

\* Path::to_str: the path as a string, if it is valid Unicode.
to_str(path) ==
  IF \E i \in DOMAIN path : path[i] = Unpaired THEN None ELSE Some(path)

\* str::replace("\\", "/")
replace(str) == [i \in DOMAIN str |-> IF str[i] = Backslash THEN "/" ELSE str[i]]

\* Receiver::try_recv takes the event at the back of the channel.
try_recv_last(q) ==
  IF q = <<>> THEN [event |-> None, rest |-> q]
  ELSE [event |-> Some(q[Len(q)]), rest |-> SubSeq(q, 1, Len(q) - 1)]

\* Receiver::try_recv: the oldest event of the channel if there is one, an
\* error (Empty or Disconnected) otherwise; it never waits.
try_recv(q) ==
  IF q = <<>> THEN [event |-> None, rest |-> q]
  ELSE [event |-> Some(Head(q)), rest |-> Tail(q)]

\* create_watcher: channel() makes a channel without capacity limit, whose
\* sender goes to the watcher thread; unwrap panics if there is no watcher.
create_watcher(made) ==
  /\ watcher = "none"
  /\ watcher' = IF made THEN "live" ELSE "panic"
  /\ rx' = <<>>
  /\ UNCHANGED <<sent, path_out, delivered>>
  /\ UNCHANGED <<cvars, ivars, qvars, jvars>>

\* The watcher thread sends an event: Sender::send of a channel() queues
\* the event whatever the channel holds, and returns.
watcher_send(event) ==
  /\ watcher = "live" /\ Len(sent) < MaxEvents
  /\ rx' = Append(rx, event)
  /\ sent' = Append(sent, event)
  /\ UNCHANGED <<watcher, path_out, delivered>>
  /\ UNCHANGED <<cvars, ivars, qvars, jvars>>

\* poll_watcher_event
poll_watcher_event ==
  LET r == try_recv(rx) IN
  /\ watcher = "live"
  /\ rx' = r.rest
  /\ IF r.event # None /\ r.event[1].kind = "Write"
       THEN LET path == to_str(r.event[1].path) IN
            IF path = None
              THEN /\ watcher' = "panic"
                   /\ UNCHANGED <<path_out, delivered>>
              ELSE /\ path_out' = Some(replace(path[1]))
                   /\ delivered' = Append(delivered, replace(path[1]))
                   /\ UNCHANGED watcher
       ELSE /\ path_out' = None
            /\ UNCHANGED <<watcher, delivered>>
  /\ UNCHANGED sent
  /\ UNCHANGED <<cvars, ivars, qvars, jvars>>

\* drop_watcher: the watcher and the receiver are dropped.
drop_watcher ==
  /\ watcher = "live"
  /\ watcher' = "dropped"
  /\ rx' = <<>>
  /\ UNCHANGED <<sent, path_out, delivered>>
  /\ UNCHANGED <<cvars, ivars, qvars, jvars>>

NextWatcher ==
  \/ \E made \in BOOLEAN : create_watcher(made)
  \/ \E event \in DebouncedEvents : watcher_send(event)
  \/ poll_watcher_event
  \/ drop_watcher

\* The watcher thread and the compiler thread, interleaved.
SpecWatcher == Init /\ [][NextWatcher]_vars

\* ---- properties ----

\* The number of events polls have taken from the channel.
Consumed == Len(sent) - Len(rx)

IsWrite(event) == event.kind = "Write"
IsUnicodeWrite(event) == event.kind = "Write" /\ to_str(event.path) # None

\* The paths of the Write events among the first n events sent, in order;
\* of those with a Unicode path only, or of all.
RECURSIVE WritePaths(_, _)
WritePaths(n, unicode) ==
  IF n = 0 THEN <<>>
  ELSE IF IF unicode THEN IsUnicodeWrite(sent[n]) ELSE IsWrite(sent[n])
         THEN Append(WritePaths(n - 1, unicode), replace(sent[n].path))
         ELSE WritePaths(n - 1, unicode)

\* A step is a poll that returned.
Polled == watcher = "live" /\ watcher' = "live" /\ sent' = sent

\* A live watcher can be polled, and the channel holds the events sent and
\* not yet taken, oldest first.
PollsInOrder ==
  watcher \in {"live", "panic"} =>
    /\ watcher = "live" => ENABLED poll_watcher_event
    /\ Consumed >= 0
    /\ rx = SubSeq(sent, Consumed + 1, Len(sent))

C29_ChannelHoldsAll == watcher = "live" /\ Len(rx) = MaxEvents

\* =========================================================================
\* The constraint generator (inference.rs:690-1075) and the sanity check
\* =========================================================================

\* A node of the typed tree: its Content variant, the name it defines or
\* refers to, the argument of a function definition, the type expression
\* it carries if any (for a literal, the constraint of its value), and its
\* child nodes.
Node(kind, name, arg, tag, kids) ==
  [kind |-> kind, name |-> name, arg |-> arg, tag |-> tag, kids |-> kids]
LiteralNode(tc) == Node("Literal", "", "", Some(tc), <<>>)
VariableInitialise(name, type_tag, value) ==
  Node("VariableInitialise", name, "", type_tag, <<value>>)
Reference(name) == Node("Reference", name, "", None, <<>>)
Assignment(assignee, value) == Node("Assignment", "", "", None, <<assignee, value>>)
IfThenElse(condition, then_branch, else_branch) ==
  Node("IfThenElse", "", "", None, <<condition, then_branch, else_branch>>)
Block(ns) == Node("Block", "", "", None, ns)
ArrayLiteral(ns) == Node("ArrayLiteral", "", "", None, ns)
While(condition, body) == Node("While", "", "", None, <<condition, body>>)
ConvertNode(from_value, into_type) ==
  Node("Convert", "", "", Some(into_type), <<from_value>>)
FunctionDefinitionNode(name, arg, type_tag, body) ==
  Node("FunctionDefinition", name, arg, type_tag, <<body>>)
FunctionCallNode(name, arg) == Node("FunctionCall", name, "", None, <<arg>>)

\* A type expression that expr_to_type rejects.
Malformed == <<"?">>

\* expr_to_type: the type a type expression names, or an error.
expr_to_type(expr) == IF expr = Malformed THEN None ELSE Some(expr)

\* GatherConstraints: the generator of symbols (next), the constraints, the
\* symbols of the variables, the errors, and the symbol last returned.
NewGather ==
  [next |-> 1, constraints |-> <<>>, variable_symbols |-> EmptyMap,
   errors |-> <<>>, ts |-> 0]

\* type_symbol / node_to_symbol of a node not seen before
type_symbol(g) == [g EXCEPT !.next = @ + 1, !.ts = g.next]

\* variable_to_type_symbol
variable_to_type_symbol(g, v) ==
  IF v \in DOMAIN g.variable_symbols
    THEN [g EXCEPT !.ts = g.variable_symbols[v]]
    ELSE [type_symbol(g) EXCEPT !.variable_symbols = Put(@, v, g.next)]

constraint(g, c) == [g EXCEPT !.constraints = Append(@, c)]
equalivalent(g, a, b) == constraint(g, Equalivalent(a, b))
assert_(g, ts, t) == constraint(g, Assert_(ts, Concrete(t)))

\* try_expr_to_type: an error of expr_to_type is logged.
log_error(g, expr) ==
  [g EXCEPT !.errors = Append(@, Error("type expression", 0))]

\* tagged_symbol
tagged_symbol(g, ts, type_expr) ==
  IF type_expr = None THEN g
  ELSE IF expr_to_type(type_expr[1]) = None THEN log_error(g, type_expr[1])
  ELSE assert_(g, ts, expr_to_type(type_expr[1])[1])

\* A literal whose value asserts nothing of its symbol.
literal_constraint_none(g, ts, tc) == g

\* Content::Literal
literal_constraint(g, ts, tc) == constraint(g, Assert_(ts, tc))

RECURSIVE process_node(_, _)
RECURSIVE process_block(_, _)
RECURSIVE process_elements(_, _, _)

\* Content::Block, the children in order: the symbol of the last one.
process_block(g, ns) ==
  IF Len(ns) = 1 THEN process_node(g, ns[1])
  ELSE process_block(process_node(g, Head(ns)), Tail(ns))

\* Content::ArrayLiteral, the elements in order.
process_elements(g, ns, element_ts) ==
  IF ns = <<>> THEN g
  ELSE LET g1 == process_node(g, Head(ns)) IN
       process_elements(equalivalent(g1, g1.ts, element_ts), Tail(ns), element_ts)

\* GatherConstraints::process_node: the constraints of a node and of its
\* children; ts is the symbol of the node.  Functions have one argument and
\* no return tag.
process_node(g0, node) ==
  LET g == type_symbol(g0)
      ts == g.ts
      done(gn) == [gn EXCEPT !.ts = ts]
  IN
  CASE node.kind = "Literal" -> done(literal_constraint(g, ts, node.tag[1]))
    [] node.kind = "VariableInitialise" ->
         LET g1 == variable_to_type_symbol(assert_(g, ts, <<"Void">>), node.name)
             var_type_symbol == g1.ts
             g2 == process_node(tagged_symbol(g1, var_type_symbol, node.tag),
                                node.kids[1])
         IN done(equalivalent(g2, var_type_symbol, g2.ts))
    [] node.kind = "Assignment" ->
         LET a == process_node(assert_(g, ts, <<"Void">>), node.kids[1])
             b == process_node(a, node.kids[2])
         IN done(equalivalent(b, a.ts, b.ts))
    [] node.kind = "IfThenElse" ->
         LET cond == process_node(g, node.kids[1])
             then_br == process_node(cond, node.kids[2])
             else_br == process_node(then_br, node.kids[3])
         IN done(equalivalent(
                   assert_(equalivalent(else_br, ts, then_br.ts),
                           cond.ts, <<"Bool">>),
                   then_br.ts, else_br.ts))
    [] node.kind = "Block" ->
         IF Len(node.kids) > 0
           THEN LET c == process_block(g, node.kids) IN
                done(equalivalent(c, ts, c.ts))
           ELSE done(assert_(g, ts, <<"Void">>))
    [] node.kind = "Reference" ->
         LET v == variable_to_type_symbol(g, node.name) IN
         done(equalivalent(v, ts, v.ts))
    [] node.kind = "FunctionDefinition" ->
         LET g1 == variable_to_type_symbol(assert_(g, ts, <<"Void">>), node.arg)
             arg_type_symbol == g1.ts
             body == process_node(tagged_symbol(g1, arg_type_symbol, node.tag),
                                  node.kids[1])
         IN done(constraint(body, FunctionDef(node.name, body.ts, arg_type_symbol)))
    [] node.kind = "ArrayLiteral" ->
         LET g1 == type_symbol(g)
             element_ts == g1.ts
             g2 == process_elements(g1, node.kids, element_ts)
         IN done(constraint(g2, Array(ts, element_ts)))
    [] node.kind = "FunctionCall" ->
         LET a == process_node(g, node.kids[1]) IN
         done(constraint(a, FunctionCall(node.name, a.ts, ts)))
    [] node.kind = "While" ->
         LET cond == process_node(assert_(g, ts, <<"Void">>), node.kids[1])
             body == process_node(cond, node.kids[2])
         IN done(assert_(assert_(body, cond.ts, <<"Bool">>), body.ts, <<"Void">>))
    [] node.kind = "Convert" ->
         LET v == process_node(g, node.kids[1])
             t == expr_to_type(node.tag[1])
         IN IF t = None THEN done(log_error(v, node.tag[1]))
            ELSE done(constraint(assert_(v, ts, t[1]), Convert(v.ts, t[1])))

\* gather_constraints
gather_constraints(root) == process_node(NewGather, root)

\* ---- the programs inferred ----

Literals ==
  {LiteralNode(tc) : tc \in {Class("Integer"), Class("Float"), Concrete(<<"Bool">>)}}

\* Type tags: none, a type, or a type expression that is rejected.
TypeTags == {None, Some(<<"U8">>), Some(<<"Bool">>), Some(Malformed)}
IntoTypes == {<<"U8">>, <<"Bool">>, Malformed}

\* Expressions over the literals and, if there is one, the variable v.
Operands(v) == Literals \cup (IF v = "" THEN {} ELSE {Reference(v)})
Expressions(v) ==
  Operands(v)
  \cup {Block(<<>>), ArrayLiteral(<<>>)}
  \cup {Block(<<e>>) : e \in Operands(v)}
  \cup {ArrayLiteral(<<e, LiteralNode(Class("Integer"))>>) : e \in Operands(v)}
  \cup {ConvertNode(e, t) : e \in Operands(v), t \in IntoTypes}
  \cup {IfThenElse(LiteralNode(Concrete(<<"Bool">>)), e, LiteralNode(Class("Float"))) :
          e \in Operands(v)}
  \cup {While(e, Block(<<>>)) : e \in Operands(v)}
  \cup (IF v = "" THEN {}
        ELSE {Assignment(Reference(v), e) : e \in Literals})

\* A variable and an expression that may use it; a function of one
\* argument and a call of it or of an unknown function.
GatherPrograms ==
  {Block(<<VariableInitialise("x", tag, value), use>>) :
     tag \in TypeTags, value \in Expressions(""), use \in Expressions("x")}
  \cup {Block(<<FunctionDefinitionNode("f", "a", tag, body), use>>) :
          tag \in TypeTags, body \in Expressions("a"),
          use \in {FunctionCallNode(n, e) : n \in {"f", "g"}, e \in Literals}}

InitGather ==
  /\ InitStore
  /\ \E root \in GatherPrograms :
       /\ constraints = gather_constraints(root).constraints
       /\ errors = gather_constraints(root).errors
  /\ resolved = EmptyMap
  /\ unused = <<>>
  /\ total_passes = 0
  /\ ipc = "start"
  /\ node_type = EmptyMap
  /\ functions = <<>>
  /\ CallIdle /\ JitIdle /\ WatcherIdle

\* infer_types: gather_constraints, then infer.
SpecGather == InitGather /\ [][NextInfer]_vars

\* ---- properties ----

====
